---- MODULE Spec2Model ----
(***************************************************************************)
(* rustymatch: glob matching of a path against a pattern (src/src/lib.rs). *)
(*                                                                         *)
(* A Rust `char` is modelled as a one-character string, a Vec<char> as a   *)
(* sequence of them.  The operators keep the 0-based indices of the Rust   *)
(* code; At(s, i) is s[i].                                                 *)
(***************************************************************************)
EXTENDS Integers, Sequences, FiniteSets, TLC

VARIABLES input, pattern, pc, result, calls, memos

vars == <<input, pattern, pc, result, calls, memos>>

----------------------------------------------------------------------------
(* Characters and slices *)

\* Runs of printable ASCII characters in code-point order, each with the
\* code point of its first character.
CodeRuns ==
  <<<<32,
       <<" ", "!">> >>,
    <<35,
       <<"#", "$", "%", "&", "'", "(", ")", "*", "+", ",", "-", ".",
          "/", "0", "1", "2", "3", "4", "5", "6", "7", "8", "9", ":",
          ";", "<", "=", ">", "?", "@", "A", "B", "C", "D", "E", "F",
          "G", "H", "I", "J", "K", "L", "M", "N", "O", "P", "Q", "R",
          "S", "T", "U", "V", "W", "X", "Y", "Z", "[">> >>,
    <<93,
       <<"]", "^", "_">> >>,
    <<97,
       <<"a", "b", "c", "d", "e", "f", "g", "h", "i", "j", "k", "l",
          "m", "n", "o", "p", "q", "r", "s", "t", "u", "v", "w", "x",
          "y", "z", "{", "|", "}", "~">> >>>>

\* Unicode scalar value of each of these characters.
CodePoint ==
    [c \in UNION {{CodeRuns[r][2][i] : i \in 1..Len(CodeRuns[r][2])} :
                      r \in 1..Len(CodeRuns)} |->
        LET r == CHOOSE k \in 1..Len(CodeRuns) :
                     \E i \in 1..Len(CodeRuns[k][2]) : CodeRuns[k][2][i] = c
            i == CHOOSE k \in 1..Len(CodeRuns[r][2]) : CodeRuns[r][2][k] = c
        IN  CodeRuns[r][1] + i - 1]

\* Unicode scalar value of a character (the order of char's Ord).
Code(c) == CodePoint[c]

\* s[i] with a 0-based index
At(s, i) == s[i + 1]

\* s[from..] with a 0-based start
SliceFrom(s, from) == SubSeq(s, from + 1, Len(s))

\* s[from..to] (to exclusive), 0-based
Slice(s, from, to) == SubSeq(s, from + 1, to)

\* str::contains("//")
ContainsDoubleSlash(s) ==
    \E i \in 1..(Len(s) - 1) : s[i] = "/" /\ s[i + 1] = "/"

\* slice.contains(&c)
Contains(s, c) == \E i \in 1..Len(s) : s[i] = c

\* iter().all(|c| c == '*')
AllStars(s) == \A i \in 1..Len(s) : s[i] = "*"

----------------------------------------------------------------------------
(* Character classes *)

RECURSIVE is_char_in_class_from(_, _, _)
\* Mutant of is_char_in_class_from: a '-' after a character always starts a
\* range, open-ended when nothing follows the '-'.
is_char_in_class_open_range(input_char, class_content, i) ==
    IF i >= Len(class_content) THEN FALSE
    ELSE IF i + 1 < Len(class_content) /\ At(class_content, i + 1) = "-"
         THEN LET start == At(class_content, i)
                  in_range ==
                      /\ Code(input_char) >= Code(start)
                      /\ i + 2 < Len(class_content)
                            => Code(input_char) <= Code(At(class_content, i + 2))
              IN  IF in_range THEN TRUE
                  ELSE is_char_in_class_from(input_char, class_content, i + 3)
         ELSE IF input_char = At(class_content, i)
              THEN TRUE
              ELSE is_char_in_class_from(input_char, class_content, i + 1)

\* Mutant of is_char_in_class_from: the endpoints of a range are put in
\* order before the test, so that z-a lists what a-z lists.
is_char_in_class_unordered_range(input_char, class_content, i) ==
    IF i >= Len(class_content) THEN FALSE
    ELSE IF /\ i + 1 < Len(class_content)
            /\ i + 2 < Len(class_content)
            /\ At(class_content, i + 1) = "-"
         THEN LET start == At(class_content, i)
                  end == At(class_content, i + 2)
              IN  IF \/ /\ Code(input_char) >= Code(start)
                        /\ Code(input_char) <= Code(end)
                     \/ /\ Code(input_char) >= Code(end)
                        /\ Code(input_char) <= Code(start)
                  THEN TRUE
                  ELSE is_char_in_class_from(input_char, class_content, i + 3)
         ELSE IF input_char = At(class_content, i)
              THEN TRUE
              ELSE is_char_in_class_from(input_char, class_content, i + 1)

\* The while loop of is_char_in_class, from index i on.
is_char_in_class_from(input_char, class_content, i) ==
    IF i >= Len(class_content) THEN FALSE
    ELSE IF /\ i + 1 < Len(class_content)
            /\ i + 2 < Len(class_content)
            /\ At(class_content, i + 1) = "-"
         THEN LET start == At(class_content, i)
                  end == At(class_content, i + 2)
              IN  IF /\ Code(input_char) >= Code(start)
                     /\ Code(input_char) <= Code(end)
                  THEN TRUE
                  ELSE is_char_in_class_from(input_char, class_content, i + 3)
         ELSE IF input_char = At(class_content, i)
              THEN TRUE
              ELSE is_char_in_class_from(input_char, class_content, i + 1)

is_char_in_class(input_char, class_content) ==
    is_char_in_class_from(input_char, class_content, 0)

RECURSIVE find_class_end(_, _)
\* The scan for ']' in match_character_class: the index of the first ']' at
\* or after class_end, or Len(pattern) when there is none (found_end false).
find_class_end(pat, class_end) ==
    IF class_end >= Len(pat) THEN Len(pat)
    ELSE IF At(pat, class_end) = "]" THEN class_end
    ELSE find_class_end(pat, class_end + 1)

----------------------------------------------------------------------------
(* The direct backtracking matcher *)

\* Mutant of needs_intermediate_directory: globstar_start is taken for the
\* index of the globstar itself, so the character before it is a '*'.
needs_intermediate_directory_off(pat, globstar_start, next_idx) ==
    LET has_prefix ==
            /\ globstar_start > 0
            /\ At(pat, globstar_start - 1) = "/"
        has_suffix == next_idx < Len(pat)
    IN  has_prefix /\ has_suffix

\* needs_intermediate_directory; globstar_start is the index after "**".
needs_intermediate_directory(pat, globstar_start, next_idx) ==
    LET actual_globstar_start ==
            IF globstar_start >= 2 THEN globstar_start - 2 ELSE 0
        has_prefix ==
            /\ actual_globstar_start > 0
            /\ At(pat, actual_globstar_start - 1) = "/"
        has_suffix == next_idx < Len(pat)
    IN  has_prefix /\ has_suffix

\* Mutant of has_multiple_path_components_after_globstar: any suffix with a
\* '.' counts, whether or not it starts with '*'.
has_multiple_path_components_any_dot(pat, next_idx) ==
    IF next_idx >= Len(pat) THEN FALSE
    ELSE Contains(SliceFrom(pat, next_idx), ".")

has_multiple_path_components_after_globstar(pat, next_idx) ==
    IF next_idx >= Len(pat) THEN FALSE
    ELSE LET remaining == SliceFrom(pat, next_idx)
         IN  remaining[1] = "*" /\ Contains(remaining, ".")

RECURSIVE match_pattern(_, _, _, _)
RECURSIVE star_loop(_, _, _, _)
RECURSIVE match_globstar(_, _, _, _)
RECURSIVE globstar_slash_loop(_, _, _, _, _)
RECURSIVE globstar_any_loop(_, _, _, _)
RECURSIVE match_character_class(_, _, _, _)

\* Mutant of star_loop: the loop does not stop at a '/'.
star_loop_crossing(inp, pat, i, pattern_idx) ==
    IF i >= Len(inp) THEN FALSE
    ELSE IF match_pattern(inp, pat, i + 1, pattern_idx + 1) THEN TRUE
    ELSE star_loop(inp, pat, i + 1, pattern_idx)

\* for i in input_idx..input.len() of the single-star branch
star_loop(inp, pat, i, pattern_idx) ==
    IF i >= Len(inp) THEN FALSE
    ELSE IF At(inp, i) = "/" THEN FALSE
    ELSE IF match_pattern(inp, pat, i + 1, pattern_idx + 1) THEN TRUE
    ELSE star_loop(inp, pat, i + 1, pattern_idx)

\* Mutant of match_pattern: an exhausted pattern accepts whatever input is
\* left (a prefix match).
match_pattern_prefix(inp, pat, input_idx, pattern_idx) ==
    IF pattern_idx >= Len(pat) THEN TRUE
    ELSE IF input_idx >= Len(inp) THEN AllStars(SliceFrom(pat, pattern_idx))
    ELSE LET pattern_char == At(pat, pattern_idx)
             input_char == At(inp, input_idx)
         IN  CASE pattern_char = "*" ->
                    IF pattern_idx + 1 < Len(pat) /\ At(pat, pattern_idx + 1) = "*"
                    THEN match_globstar(inp, pat, input_idx, pattern_idx + 2)
                    ELSE IF pattern_idx + 1 >= Len(pat)
                    THEN ~Contains(SliceFrom(inp, input_idx), "/")
                    ELSE IF match_pattern(inp, pat, input_idx, pattern_idx + 1)
                    THEN TRUE
                    ELSE star_loop(inp, pat, input_idx, pattern_idx)
               [] pattern_char = "?" ->
                    IF input_char # "/"
                    THEN match_pattern(inp, pat, input_idx + 1, pattern_idx + 1)
                    ELSE FALSE
               [] pattern_char = "[" ->
                    match_character_class(inp, pat, input_idx, pattern_idx)
               [] OTHER ->
                    IF input_char = pattern_char
                    THEN match_pattern(inp, pat, input_idx + 1, pattern_idx + 1)
                    ELSE FALSE

\* Mutant of match_pattern: on exhausted input, a pattern that is not
\* exhausted fails, also when only '*' is left.
match_pattern_no_star_tail(inp, pat, input_idx, pattern_idx) ==
    IF pattern_idx >= Len(pat) /\ input_idx >= Len(inp) THEN TRUE
    ELSE IF pattern_idx >= Len(pat) THEN FALSE
    ELSE IF input_idx >= Len(inp) THEN FALSE
    ELSE LET pattern_char == At(pat, pattern_idx)
             input_char == At(inp, input_idx)
         IN  CASE pattern_char = "*" ->
                    IF pattern_idx + 1 < Len(pat) /\ At(pat, pattern_idx + 1) = "*"
                    THEN match_globstar(inp, pat, input_idx, pattern_idx + 2)
                    ELSE IF pattern_idx + 1 >= Len(pat)
                    THEN ~Contains(SliceFrom(inp, input_idx), "/")
                    ELSE IF match_pattern(inp, pat, input_idx, pattern_idx + 1)
                    THEN TRUE
                    ELSE star_loop(inp, pat, input_idx, pattern_idx)
               [] pattern_char = "?" ->
                    IF input_char # "/"
                    THEN match_pattern(inp, pat, input_idx + 1, pattern_idx + 1)
                    ELSE FALSE
               [] pattern_char = "[" ->
                    match_character_class(inp, pat, input_idx, pattern_idx)
               [] OTHER ->
                    IF input_char = pattern_char
                    THEN match_pattern(inp, pat, input_idx + 1, pattern_idx + 1)
                    ELSE FALSE

match_pattern(inp, pat, input_idx, pattern_idx) ==
    IF pattern_idx >= Len(pat) /\ input_idx >= Len(inp) THEN TRUE
    ELSE IF pattern_idx >= Len(pat) THEN FALSE
    ELSE IF input_idx >= Len(inp) THEN AllStars(SliceFrom(pat, pattern_idx))
    ELSE LET pattern_char == At(pat, pattern_idx)
             input_char == At(inp, input_idx)
         IN  CASE pattern_char = "*" ->
                    IF pattern_idx + 1 < Len(pat) /\ At(pat, pattern_idx + 1) = "*"
                    THEN match_globstar(inp, pat, input_idx, pattern_idx + 2)
                    ELSE IF pattern_idx + 1 >= Len(pat)
                    THEN ~Contains(SliceFrom(inp, input_idx), "/")
                    ELSE IF match_pattern(inp, pat, input_idx, pattern_idx + 1)
                    THEN TRUE
                    ELSE star_loop(inp, pat, input_idx, pattern_idx)
               [] pattern_char = "?" ->
                    IF input_char # "/"
                    THEN match_pattern(inp, pat, input_idx + 1, pattern_idx + 1)
                    ELSE FALSE
               [] pattern_char = "[" ->
                    match_character_class(inp, pat, input_idx, pattern_idx)
               [] OTHER ->
                    IF input_char = pattern_char
                    THEN match_pattern(inp, pat, input_idx + 1, pattern_idx + 1)
                    ELSE FALSE

\* The loop of match_globstar when a '/' follows the globstar.
globstar_slash_loop(inp, pat, i, next_pattern_idx, found_slash) ==
    IF i >= Len(inp) THEN FALSE
    ELSE LET found == found_slash \/ At(inp, i) = "/"
         IN  IF found /\ match_pattern(inp, pat, i + 1, next_pattern_idx)
             THEN TRUE
             ELSE globstar_slash_loop(inp, pat, i + 1, next_pattern_idx, found)

\* The loop of match_globstar when no '/' follows the globstar.
globstar_any_loop(inp, pat, i, next_pattern_idx) ==
    IF i >= Len(inp) THEN FALSE
    ELSE IF match_pattern(inp, pat, i + 1, next_pattern_idx) THEN TRUE
    ELSE globstar_any_loop(inp, pat, i + 1, next_pattern_idx)

\* Mutant of match_globstar: a globstar at the end of the pattern is not
\* accepted at once, the attempts and the loops run as for any globstar.
match_globstar_no_absorb(inp, pat, input_idx, pattern_idx) ==
    LET has_slash_after_globstar ==
            pattern_idx < Len(pat) /\ At(pat, pattern_idx) = "/"
        next_pattern_idx ==
            IF has_slash_after_globstar THEN pattern_idx + 1 ELSE pattern_idx
    IN  IF has_slash_after_globstar
        THEN LET should_require_intermediate ==
                     /\ needs_intermediate_directory(pat, pattern_idx, next_pattern_idx)
                     /\ has_multiple_path_components_after_globstar(pat, next_pattern_idx)
             IN  IF /\ ~should_require_intermediate
                    /\ match_pattern(inp, pat, input_idx, next_pattern_idx)
                 THEN TRUE
                 ELSE globstar_slash_loop(inp, pat, input_idx, next_pattern_idx, FALSE)
        ELSE IF match_pattern(inp, pat, input_idx, next_pattern_idx) THEN TRUE
        ELSE globstar_any_loop(inp, pat, input_idx, next_pattern_idx)

match_globstar(inp, pat, input_idx, pattern_idx) ==
    LET has_slash_after_globstar ==
            pattern_idx < Len(pat) /\ At(pat, pattern_idx) = "/"
        next_pattern_idx ==
            IF has_slash_after_globstar THEN pattern_idx + 1 ELSE pattern_idx
    IN  IF next_pattern_idx >= Len(pat) THEN TRUE
        ELSE IF has_slash_after_globstar
        THEN LET should_require_intermediate ==
                     /\ needs_intermediate_directory(pat, pattern_idx, next_pattern_idx)
                     /\ has_multiple_path_components_after_globstar(pat, next_pattern_idx)
             IN  IF /\ ~should_require_intermediate
                    /\ match_pattern(inp, pat, input_idx, next_pattern_idx)
                 THEN TRUE
                 ELSE globstar_slash_loop(inp, pat, input_idx, next_pattern_idx, FALSE)
        ELSE IF match_pattern(inp, pat, input_idx, next_pattern_idx) THEN TRUE
        ELSE globstar_any_loop(inp, pat, input_idx, next_pattern_idx)

\* Mutant of match_character_class: the result is not inverted for a
\* negated class.
match_character_class_no_negation(inp, pat, input_idx, pattern_idx) ==
    IF input_idx >= Len(inp) THEN FALSE
    ELSE LET input_char == At(inp, input_idx)
             class_end == find_class_end(pat, pattern_idx + 1)
             found_end == class_end < Len(pat)
         IN  IF ~found_end
             THEN IF input_char = "["
                  THEN match_pattern(inp, pat, input_idx + 1, pattern_idx + 1)
                  ELSE FALSE
             ELSE LET class_content == Slice(pat, pattern_idx + 1, class_end)
                      is_negated == class_content # <<>> /\ class_content[1] = "^"
                      content == IF is_negated THEN Tail(class_content)
                                 ELSE class_content
                      matches == is_char_in_class(input_char, content)
                  IN  IF matches
                      THEN match_pattern(inp, pat, input_idx + 1, class_end + 1)
                      ELSE FALSE

match_character_class(inp, pat, input_idx, pattern_idx) ==
    IF input_idx >= Len(inp) THEN FALSE
    ELSE LET input_char == At(inp, input_idx)
             class_end == find_class_end(pat, pattern_idx + 1)
             found_end == class_end < Len(pat)
         IN  IF ~found_end
             THEN IF input_char = "["
                  THEN match_pattern(inp, pat, input_idx + 1, pattern_idx + 1)
                  ELSE FALSE
             ELSE LET class_content == Slice(pat, pattern_idx + 1, class_end)
                      is_negated == class_content # <<>> /\ class_content[1] = "^"
                      content == IF is_negated THEN Tail(class_content)
                                 ELSE class_content
                      matches == is_char_in_class(input_char, content)
                      res == IF is_negated THEN ~matches ELSE matches
                  IN  IF res
                      THEN match_pattern(inp, pat, input_idx + 1, class_end + 1)
                      ELSE FALSE

----------------------------------------------------------------------------
(* Pattern classifier and segment parser *)

RECURSIVE has_multiple_globstars_from(_, _, _)
\* Mutant of has_multiple_globstars_from: the scan advances by one character
\* after a "**", so that overlapping pairs are counted.
has_multiple_globstars_overlapping(pat, i, globstar_count) ==
    IF ~(i + 1 < Len(pat)) THEN FALSE
    ELSE IF At(pat, i) = "*" /\ At(pat, i + 1) = "*"
         THEN IF globstar_count + 1 > 1 THEN TRUE
              ELSE has_multiple_globstars_from(pat, i + 1, globstar_count + 1)
         ELSE has_multiple_globstars_from(pat, i + 1, globstar_count)

\* The while loop of has_multiple_globstars, from index i with the count so far.
has_multiple_globstars_from(pat, i, globstar_count) ==
    IF ~(i + 1 < Len(pat)) THEN FALSE
    ELSE IF At(pat, i) = "*" /\ At(pat, i + 1) = "*"
         THEN IF globstar_count + 1 > 1 THEN TRUE
              ELSE has_multiple_globstars_from(pat, i + 2, globstar_count + 1)
         ELSE has_multiple_globstars_from(pat, i + 1, globstar_count)

has_multiple_globstars(pat) == has_multiple_globstars_from(pat, 0, 0)

\* GlobSegment
Literal(text) == [kind |-> "Literal", text |-> text]
Wildcard == [kind |-> "Wildcard", text |-> <<>>]
Globstar == [kind |-> "Globstar", text |-> <<>>]
CharClass(text) == [kind |-> "CharClass", text |-> text]

\* if !current_literal.is_empty() { segments.push(Literal(..)) }
flush_literal(segments, current_literal) ==
    IF current_literal # <<>> THEN Append(segments, Literal(current_literal))
    ELSE segments

RECURSIVE scan_class(_, _, _)
\* The inner while loop of the '[' arm: the value of j when it ends, that is
\* the index of the first ']' after i, or Len(pattern).
scan_class(pat, i, j) ==
    IF j >= Len(pat) THEN j
    ELSE IF j > i /\ At(pat, j) = "]" THEN j
    ELSE scan_class(pat, i, j + 1)

RECURSIVE parse_glob_segments_from(_, _, _, _)
\* Mutant of parse_glob_segments_from: the '/' after "**" is not skipped.
parse_glob_segments_keep_slash(pat, i, segments, current_literal) ==
    IF i >= Len(pat) THEN flush_literal(segments, current_literal)
    ELSE CASE At(pat, i) = "*" /\ i + 1 < Len(pat) /\ At(pat, i + 1) = "*" ->
                parse_glob_segments_from(pat, i + 2,
                    Append(flush_literal(segments, current_literal), Globstar),
                    <<>>)
           [] At(pat, i) = "*" /\ ~(i + 1 < Len(pat) /\ At(pat, i + 1) = "*") ->
                parse_glob_segments_from(pat, i + 1,
                    Append(flush_literal(segments, current_literal), Wildcard),
                    <<>>)
           [] At(pat, i) = "[" ->
                LET j == scan_class(pat, i, i)
                    last == IF j < Len(pat) THEN j + 1 ELSE j
                IN  parse_glob_segments_from(pat, j + 1,
                        Append(flush_literal(segments, current_literal),
                               CharClass(Slice(pat, i, last))),
                        <<>>)
           [] OTHER ->
                parse_glob_segments_from(pat, i + 1, segments,
                    Append(current_literal, At(pat, i)))

\* The while loop of parse_glob_segments.
parse_glob_segments_from(pat, i, segments, current_literal) ==
    IF i >= Len(pat) THEN flush_literal(segments, current_literal)
    ELSE CASE At(pat, i) = "*" /\ i + 1 < Len(pat) /\ At(pat, i + 1) = "*" ->
                LET skip == IF i + 2 < Len(pat) /\ At(pat, i + 2) = "/"
                            THEN i + 3 ELSE i + 2
                IN  parse_glob_segments_from(pat, skip,
                        Append(flush_literal(segments, current_literal), Globstar),
                        <<>>)
           [] At(pat, i) = "*" /\ ~(i + 1 < Len(pat) /\ At(pat, i + 1) = "*") ->
                parse_glob_segments_from(pat, i + 1,
                    Append(flush_literal(segments, current_literal), Wildcard),
                    <<>>)
           [] At(pat, i) = "[" ->
                LET j == scan_class(pat, i, i)
                    last == IF j < Len(pat) THEN j + 1 ELSE j
                    class_content == Slice(pat, i, last)
                IN  parse_glob_segments_from(pat, j + 1,
                        Append(flush_literal(segments, current_literal),
                               CharClass(class_content)),
                        <<>>)
           [] OTHER ->
                parse_glob_segments_from(pat, i + 1, segments,
                    Append(current_literal, At(pat, i)))

parse_glob_segments(pat) == parse_glob_segments_from(pat, 0, <<>>, <<>>)

----------------------------------------------------------------------------
(* The segment-based memoized matcher *)

\* The memo table is a function from the keys (input_idx, segment_idx) it
\* holds to booleans.  Every matcher operator returns the pair of its result
\* r and the memo table m it leaves behind.
EmptyMemo == [k \in {} |-> FALSE]

\* memo.insert(key, result)
memo_insert(memo, key, value) ==
    [k \in DOMAIN memo \cup {key} |-> IF k = key THEN value ELSE memo[k]]

\* Mutant of matches_char_class: a class never accepts the separator '/'.
matches_char_class_no_separator(ch, class) ==
    IF ch = "/" THEN FALSE
    ELSE IF Len(class) < 3 \/ class[1] # "[" \/ class[Len(class)] # "]" THEN FALSE
    ELSE LET content == Slice(class, 1, Len(class) - 1)
             is_negated == content # <<>> /\ content[1] = "^"
             actual_content == IF is_negated THEN Tail(content) ELSE content
             matches == is_char_in_class(ch, actual_content)
         IN  IF is_negated THEN ~matches ELSE matches

\* matches_char_class
matches_char_class(ch, class) ==
    IF Len(class) < 3 \/ class[1] # "[" \/ class[Len(class)] # "]" THEN FALSE
    ELSE LET content == Slice(class, 1, Len(class) - 1)
             is_negated == content # <<>> /\ content[1] = "^"
             actual_content == IF is_negated THEN Tail(content) ELSE content
             matches == is_char_in_class(ch, actual_content)
         IN  IF is_negated THEN ~matches ELSE matches

\* segments[segment_idx..].iter().all(|seg| matches!(seg, Globstar))
AllGlobstar(segments, segment_idx) ==
    \A k \in (segment_idx + 1)..Len(segments) : segments[k].kind = "Globstar"

RECURSIVE match_segments_with_memo(_, _, _, _, _)
RECURSIVE match_segments_recursive_optimized(_, _, _, _, _)
RECURSIVE wildcard_loop(_, _, _, _, _)
RECURSIVE globstar_loop(_, _, _, _, _)

match_segments_with_memo(input_chars, input_idx, segments, segment_idx, memo) ==
    LET key == <<input_idx, segment_idx>>
    IN  IF key \in DOMAIN memo THEN [r |-> memo[key], m |-> memo]
        ELSE LET out == match_segments_recursive_optimized(
                            input_chars, input_idx, segments, segment_idx, memo)
             IN  [r |-> out.r, m |-> memo_insert(out.m, key, out.r)]

\* for i in input_idx..input_chars.len() of the Wildcard arm
wildcard_loop(input_chars, i, segments, segment_idx, memo) ==
    IF i >= Len(input_chars) THEN [r |-> FALSE, m |-> memo]
    ELSE IF At(input_chars, i) = "/" THEN [r |-> FALSE, m |-> memo]
    ELSE LET out == match_segments_with_memo(
                        input_chars, i + 1, segments, segment_idx + 1, memo)
         IN  IF out.r THEN out
             ELSE wildcard_loop(input_chars, i + 1, segments, segment_idx, out.m)

\* for i in input_idx..input_chars.len() of the Globstar arm
globstar_loop(input_chars, i, segments, segment_idx, memo) ==
    IF i >= Len(input_chars) THEN [r |-> FALSE, m |-> memo]
    ELSE LET out == match_segments_with_memo(
                        input_chars, i + 1, segments, segment_idx + 1, memo)
         IN  IF out.r THEN out
             ELSE globstar_loop(input_chars, i + 1, segments, segment_idx, out.m)

match_segments_recursive_optimized(input_chars, input_idx, segments, segment_idx, memo) ==
    IF segment_idx >= Len(segments)
    THEN [r |-> input_idx >= Len(input_chars), m |-> memo]
    ELSE IF input_idx >= Len(input_chars)
    THEN [r |-> AllGlobstar(segments, segment_idx), m |-> memo]
    ELSE LET seg == At(segments, segment_idx)
         IN  CASE seg.kind = "Literal" ->
                    LET lit_chars == seg.text
                    IN  IF /\ input_idx + Len(lit_chars) <= Len(input_chars)
                           /\ Slice(input_chars, input_idx,
                                    input_idx + Len(lit_chars)) = lit_chars
                        THEN match_segments_with_memo(input_chars,
                                 input_idx + Len(lit_chars), segments,
                                 segment_idx + 1, memo)
                        ELSE [r |-> FALSE, m |-> memo]
               [] seg.kind = "Wildcard" ->
                    wildcard_loop(input_chars, input_idx, segments, segment_idx, memo)
               [] seg.kind = "Globstar" ->
                    LET out == match_segments_with_memo(input_chars, input_idx,
                                   segments, segment_idx + 1, memo)
                    IN  IF out.r THEN out
                        ELSE globstar_loop(input_chars, input_idx, segments,
                                           segment_idx, out.m)
               [] seg.kind = "CharClass" ->
                    IF matches_char_class(At(input_chars, input_idx), seg.text)
                    THEN match_segments_with_memo(input_chars, input_idx + 1,
                             segments, segment_idx + 1, memo)
                    ELSE [r |-> FALSE, m |-> memo]

match_with_segments(inp, segments) ==
    match_segments_with_memo(inp, 0, segments, 0, EmptyMemo).r

----------------------------------------------------------------------------
(* The dispatcher *)

\* Mutant of is_match: no check for "//" in the input.
is_match_no_slash_check(inp, pat) ==
    IF pat # <<>> /\ pat[1] = "*" /\ inp # <<>> /\ inp[1] = "."
    THEN FALSE
    ELSE IF has_multiple_globstars(pat)
    THEN match_with_segments(inp, parse_glob_segments(pat))
    ELSE match_pattern(inp, pat, 0, 0)

\* Mutant of is_match: no dot-file check.
is_match_no_dot_check(inp, pat) ==
    IF ContainsDoubleSlash(inp) THEN FALSE
    ELSE IF has_multiple_globstars(pat)
    THEN match_with_segments(inp, parse_glob_segments(pat))
    ELSE match_pattern(inp, pat, 0, 0)

is_match(inp, pat) ==
    IF ContainsDoubleSlash(inp) THEN FALSE
    ELSE IF pat # <<>> /\ pat[1] = "*" /\ inp # <<>> /\ inp[1] = "."
    THEN FALSE
    ELSE IF has_multiple_globstars(pat)
    THEN match_with_segments(inp, parse_glob_segments(pat))
    ELSE match_pattern(inp, pat, 0, 0)

----------------------------------------------------------------------------
(* Call traces of the direct matcher.  The matcher is evaluated once more,   *)
(* call by call, and each operator returns a summary of what the call did:  *)
(*   r       its return value,                                              *)
(*   ok      every index and slice access it made was within bounds (an     *)
(*           access out of bounds panics: the evaluation stops there),      *)
(*   d       the largest number of nested calls, this one included,         *)
(*   lv      the largest number of nested calls of match_pattern (of        *)
(*           match_segments_with_memo in the segment-based matcher),        *)
(*   strict  every call it made or caused passed a larger index (pattern    *)
(*           index, segment index) than that of the calling function,       *)
(*   mono    every such call passed an index at least as large, and a       *)
(*           larger one wherever the code adds to the index.                *)

\* s[i] and s[a..b] are within bounds.
InIdx(s, i) == 0 <= i /\ i < Len(s)
InRange(s, a, b) == 0 <= a /\ a <= b /\ b <= Len(s)

MaxOf(a, b) == IF a >= b THEN a ELSE b

\* A return without any call.
Sum(r) ==
    [r |-> r, ok |-> TRUE, d |-> 0, lv |-> 0, strict |-> TRUE, mono |-> TRUE]
\* An access out of bounds.
Panic ==
    [r |-> FALSE, ok |-> FALSE, d |-> 0, lv |-> 0, strict |-> TRUE, mono |-> TRUE]

\* The summary t of a callee, seen from the caller: the callee was given the
\* index callee_idx by a function working at caller_idx; adds is true where
\* the code passes its index plus a positive number.
Called(t, callee_idx, caller_idx, adds) ==
    [t EXCEPT !.strict = t.strict /\ callee_idx > caller_idx,
              !.mono = t.mono /\ callee_idx >= caller_idx
                              /\ (adds => callee_idx > caller_idx)]

\* b was evaluated after a, and its value is returned.
After(a, b) ==
    [b EXCEPT !.ok = a.ok /\ b.ok,
              !.d = MaxOf(a.d, b.d),
              !.lv = MaxOf(a.lv, b.lv),
              !.strict = a.strict /\ b.strict,
              !.mono = a.mono /\ b.mono]

\* The body of a function becomes the summary of the call of it.  The calls
\* of match_pattern and of match_segments_with_memo are the levels of the
\* recursion: one per pattern index, one per segment index.
Frame(body) == [body EXCEPT !.d = body.d + 1]
Level(body) == [body EXCEPT !.d = body.d + 1, !.lv = body.lv + 1]

RECURSIVE is_char_in_class_ok(_, _, _)
\* The accesses of the while loop of is_char_in_class, from index i on.
is_char_in_class_ok(input_char, class_content, i) ==
    IF i >= Len(class_content) THEN TRUE
    ELSE IF /\ i + 1 < Len(class_content)
            /\ i + 2 < Len(class_content)
            /\ At(class_content, i + 1) = "-"
         THEN /\ InIdx(class_content, i)
              /\ InIdx(class_content, i + 2)
              /\ \/ /\ Code(input_char) >= Code(At(class_content, i))
                    /\ Code(input_char) <= Code(At(class_content, i + 2))
                 \/ is_char_in_class_ok(input_char, class_content, i + 3)
         ELSE /\ InIdx(class_content, i)
              /\ \/ input_char = At(class_content, i)
                 \/ is_char_in_class_ok(input_char, class_content, i + 1)

RECURSIVE match_pattern_trace(_, _, _, _)
RECURSIVE star_loop_trace(_, _, _, _)
RECURSIVE match_globstar_trace(_, _, _, _)
RECURSIVE globstar_slash_loop_trace(_, _, _, _, _, _)
RECURSIVE globstar_any_loop_trace(_, _, _, _, _)
RECURSIVE match_character_class_trace(_, _, _, _)

\* Mutant of star_loop_trace: the loop resumes at the '*' itself, with the
\* pattern index it was given.
star_loop_trace_same_index(inp, pat, i, pattern_idx) ==
    IF i >= Len(inp) THEN Sum(FALSE)
    ELSE IF At(inp, i) = "/" THEN Sum(FALSE)
    ELSE LET t == Called(match_pattern_trace(inp, pat, i + 1, pattern_idx),
                         pattern_idx, pattern_idx, TRUE)
         IN  IF ~t.ok \/ t.r THEN t
             ELSE After(t, star_loop_trace(inp, pat, i + 1, pattern_idx))

\* for i in input_idx..input.len() of the single-star branch
star_loop_trace(inp, pat, i, pattern_idx) ==
    IF i >= Len(inp) THEN Sum(FALSE)
    ELSE IF At(inp, i) = "/" THEN Sum(FALSE)
    ELSE LET t == Called(match_pattern_trace(inp, pat, i + 1, pattern_idx + 1),
                         pattern_idx + 1, pattern_idx, TRUE)
         IN  IF ~t.ok \/ t.r THEN t
             ELSE After(t, star_loop_trace(inp, pat, i + 1, pattern_idx))

match_pattern_trace(inp, pat, input_idx, pattern_idx) ==
    Level(
    IF pattern_idx >= Len(pat) /\ input_idx >= Len(inp) THEN Sum(TRUE)
    ELSE IF pattern_idx >= Len(pat) THEN Sum(FALSE)
    ELSE IF input_idx >= Len(inp)
    THEN IF ~InRange(pat, pattern_idx, Len(pat)) THEN Panic
         ELSE Sum(AllStars(SliceFrom(pat, pattern_idx)))
    ELSE IF ~(InIdx(pat, pattern_idx) /\ InIdx(inp, input_idx)) THEN Panic
    ELSE LET pattern_char == At(pat, pattern_idx)
             input_char == At(inp, input_idx)
         IN  CASE pattern_char = "*" ->
                    IF pattern_idx + 1 < Len(pat) /\ At(pat, pattern_idx + 1) = "*"
                    THEN Called(match_globstar_trace(inp, pat, input_idx, pattern_idx + 2),
                                pattern_idx + 2, pattern_idx, TRUE)
                    ELSE IF pattern_idx + 1 >= Len(pat)
                    THEN IF ~InRange(inp, input_idx, Len(inp)) THEN Panic
                         ELSE Sum(~Contains(SliceFrom(inp, input_idx), "/"))
                    ELSE LET zero == Called(match_pattern_trace(inp, pat, input_idx,
                                                                pattern_idx + 1),
                                            pattern_idx + 1, pattern_idx, TRUE)
                         IN  IF ~zero.ok \/ zero.r THEN zero
                             ELSE After(zero, star_loop_trace(inp, pat, input_idx,
                                                              pattern_idx))
               [] pattern_char = "?" ->
                    IF input_char # "/"
                    THEN Called(match_pattern_trace(inp, pat, input_idx + 1, pattern_idx + 1),
                                pattern_idx + 1, pattern_idx, TRUE)
                    ELSE Sum(FALSE)
               [] pattern_char = "[" ->
                    Called(match_character_class_trace(inp, pat, input_idx, pattern_idx),
                           pattern_idx, pattern_idx, FALSE)
               [] OTHER ->
                    IF input_char = pattern_char
                    THEN Called(match_pattern_trace(inp, pat, input_idx + 1, pattern_idx + 1),
                                pattern_idx + 1, pattern_idx, TRUE)
                    ELSE Sum(FALSE))

\* The loop of match_globstar when a '/' follows the globstar; pattern_idx is
\* the index match_globstar was called with.
globstar_slash_loop_trace(inp, pat, i, pattern_idx, next_pattern_idx, found_slash) ==
    IF i >= Len(inp) THEN Sum(FALSE)
    ELSE LET found == found_slash \/ At(inp, i) = "/"
         IN  IF ~found
             THEN globstar_slash_loop_trace(inp, pat, i + 1, pattern_idx,
                                            next_pattern_idx, found)
             ELSE LET t == Called(match_pattern_trace(inp, pat, i + 1, next_pattern_idx),
                                  next_pattern_idx, pattern_idx, TRUE)
                  IN  IF ~t.ok \/ t.r THEN t
                      ELSE After(t, globstar_slash_loop_trace(inp, pat, i + 1,
                                        pattern_idx, next_pattern_idx, found))

\* The loop of match_globstar when no '/' follows the globstar.
globstar_any_loop_trace(inp, pat, i, pattern_idx, next_pattern_idx) ==
    IF i >= Len(inp) THEN Sum(FALSE)
    ELSE LET t == Called(match_pattern_trace(inp, pat, i + 1, next_pattern_idx),
                         next_pattern_idx, pattern_idx, FALSE)
         IN  IF ~t.ok \/ t.r THEN t
             ELSE After(t, globstar_any_loop_trace(inp, pat, i + 1, pattern_idx,
                                                   next_pattern_idx))

match_globstar_trace(inp, pat, input_idx, pattern_idx) ==
    Frame(
    LET has_slash_after_globstar ==
            pattern_idx < Len(pat) /\ At(pat, pattern_idx) = "/"
        next_pattern_idx ==
            IF has_slash_after_globstar THEN pattern_idx + 1 ELSE pattern_idx
    IN  IF next_pattern_idx >= Len(pat) THEN Sum(TRUE)
        ELSE IF has_slash_after_globstar
        THEN IF ~InRange(pat, next_pattern_idx, Len(pat)) THEN Panic
             ELSE
             LET should_require_intermediate ==
                     /\ needs_intermediate_directory(pat, pattern_idx, next_pattern_idx)
                     /\ has_multiple_path_components_after_globstar(pat, next_pattern_idx)
                 zero == IF should_require_intermediate THEN Sum(FALSE)
                         ELSE Called(match_pattern_trace(inp, pat, input_idx,
                                                         next_pattern_idx),
                                     next_pattern_idx, pattern_idx, TRUE)
             IN  IF ~zero.ok \/ zero.r THEN zero
                 ELSE After(zero, globstar_slash_loop_trace(inp, pat, input_idx,
                                      pattern_idx, next_pattern_idx, FALSE))
        ELSE LET zero == Called(match_pattern_trace(inp, pat, input_idx, next_pattern_idx),
                                next_pattern_idx, pattern_idx, FALSE)
             IN  IF ~zero.ok \/ zero.r THEN zero
                 ELSE After(zero, globstar_any_loop_trace(inp, pat, input_idx,
                                      pattern_idx, next_pattern_idx)))

match_character_class_trace(inp, pat, input_idx, pattern_idx) ==
    Frame(
    IF input_idx >= Len(inp) THEN Sum(FALSE)
    ELSE LET input_char == At(inp, input_idx)
             class_end == find_class_end(pat, pattern_idx + 1)
             found_end == class_end < Len(pat)
         IN  IF ~found_end
             THEN IF input_char = "["
                  THEN Called(match_pattern_trace(inp, pat, input_idx + 1, pattern_idx + 1),
                              pattern_idx + 1, pattern_idx, TRUE)
                  ELSE Sum(FALSE)
             ELSE IF ~InRange(pat, pattern_idx + 1, class_end) THEN Panic
             ELSE LET class_content == Slice(pat, pattern_idx + 1, class_end)
                      is_negated == class_content # <<>> /\ class_content[1] = "^"
                      content == IF is_negated THEN Tail(class_content)
                                 ELSE class_content
                      matches == is_char_in_class(input_char, content)
                      res == IF is_negated THEN ~matches ELSE matches
                  IN  IF ~is_char_in_class_ok(input_char, content, 0) THEN Panic
                      ELSE IF res
                      THEN Called(match_pattern_trace(inp, pat, input_idx + 1, class_end + 1),
                                  class_end + 1, pattern_idx, TRUE)
                      ELSE Sum(FALSE))

----------------------------------------------------------------------------
(* Call traces of the classifier, the parser and the segment-based matcher. *)
(* The summaries of the segment-based matcher also carry the memo table m.  *)

RECURSIVE has_multiple_globstars_ok(_, _, _)
\* The accesses of the while loop of has_multiple_globstars.
has_multiple_globstars_ok(pat, i, globstar_count) ==
    IF ~(i + 1 < Len(pat)) THEN TRUE
    ELSE /\ InIdx(pat, i)
         /\ InIdx(pat, i + 1)
         /\ IF At(pat, i) = "*" /\ At(pat, i + 1) = "*"
            THEN \/ globstar_count + 1 > 1
                 \/ has_multiple_globstars_ok(pat, i + 2, globstar_count + 1)
            ELSE has_multiple_globstars_ok(pat, i + 1, globstar_count)

RECURSIVE parse_glob_segments_ok(_, _)
\* The accesses of the while loops of parse_glob_segments, from index i on.
parse_glob_segments_ok(pat, i) ==
    IF i >= Len(pat) THEN TRUE
    ELSE /\ InIdx(pat, i)
         /\ CASE At(pat, i) = "*" /\ i + 1 < Len(pat) /\ At(pat, i + 1) = "*" ->
                    IF i + 2 < Len(pat) /\ At(pat, i + 2) = "/"
                    THEN parse_glob_segments_ok(pat, i + 3)
                    ELSE parse_glob_segments_ok(pat, i + 2)
              [] At(pat, i) = "*" /\ ~(i + 1 < Len(pat) /\ At(pat, i + 1) = "*") ->
                    parse_glob_segments_ok(pat, i + 1)
              [] At(pat, i) = "[" ->
                    LET j == scan_class(pat, i, i)
                    IN  /\ \A k \in i..j : k < Len(pat) => InIdx(pat, k)
                        /\ parse_glob_segments_ok(pat, j + 1)
              [] OTHER ->
                    parse_glob_segments_ok(pat, i + 1)

\* Mutant of matches_char_class_trace: the class text is not tested for its
\* length and its brackets before the content is sliced out of it.
matches_char_class_trace_unchecked(ch, class) ==
    IF ~InRange(class, 1, Len(class) - 1) THEN [r |-> FALSE, ok |-> FALSE]
    ELSE LET content == Slice(class, 1, Len(class) - 1)
             is_negated == content # <<>> /\ content[1] = "^"
             actual_content == IF is_negated THEN Tail(content) ELSE content
             matches == is_char_in_class(ch, actual_content)
         IN  [r |-> IF is_negated THEN ~matches ELSE matches,
              ok |-> is_char_in_class_ok(ch, actual_content, 0)]

\* matches_char_class: its value r and whether its accesses were in bounds.
matches_char_class_trace(ch, class) ==
    IF Len(class) < 3 \/ class[1] # "[" \/ class[Len(class)] # "]"
    THEN [r |-> FALSE, ok |-> TRUE]
    ELSE IF ~InRange(class, 1, Len(class) - 1) THEN [r |-> FALSE, ok |-> FALSE]
    ELSE LET content == Slice(class, 1, Len(class) - 1)
             is_negated == content # <<>> /\ content[1] = "^"
             actual_content == IF is_negated THEN Tail(content) ELSE content
             matches == is_char_in_class(ch, actual_content)
         IN  [r |-> IF is_negated THEN ~matches ELSE matches,
              ok |-> is_char_in_class_ok(ch, actual_content, 0)]

\* The test of the Literal arm: its value r and whether the slice of the
\* input it compares was in bounds.
literal_matches_trace(input_chars, input_idx, lit_chars) ==
    IF input_idx + Len(lit_chars) <= Len(input_chars)
    THEN IF ~InRange(input_chars, input_idx, input_idx + Len(lit_chars))
         THEN [r |-> FALSE, ok |-> FALSE]
         ELSE [r |-> Slice(input_chars, input_idx,
                           input_idx + Len(lit_chars)) = lit_chars,
               ok |-> TRUE]
    ELSE [r |-> FALSE, ok |-> TRUE]

SegSum(r, memo) ==
    [r |-> r, ok |-> TRUE, d |-> 0, lv |-> 0, strict |-> TRUE, mono |-> TRUE,
     m |-> memo]
SegPanic(memo) ==
    [r |-> FALSE, ok |-> FALSE, d |-> 0, lv |-> 0, strict |-> TRUE, mono |-> TRUE,
     m |-> memo]

RECURSIVE match_segments_with_memo_trace(_, _, _, _, _)
RECURSIVE match_segments_recursive_optimized_trace(_, _, _, _, _)
RECURSIVE wildcard_loop_trace(_, _, _, _, _)
RECURSIVE globstar_loop_trace(_, _, _, _, _)

match_segments_with_memo_trace(input_chars, input_idx, segments, segment_idx, memo) ==
    Level(
    LET key == <<input_idx, segment_idx>>
    IN  IF key \in DOMAIN memo THEN SegSum(memo[key], memo)
        ELSE LET out == Called(match_segments_recursive_optimized_trace(
                                   input_chars, input_idx, segments, segment_idx, memo),
                               segment_idx, segment_idx, FALSE)
             IN  IF ~out.ok THEN out
                 ELSE [out EXCEPT !.m = memo_insert(out.m, key, out.r)])

\* for i in input_idx..input_chars.len() of the Wildcard arm
wildcard_loop_trace(input_chars, i, segments, segment_idx, memo) ==
    IF i >= Len(input_chars) THEN SegSum(FALSE, memo)
    ELSE IF At(input_chars, i) = "/" THEN SegSum(FALSE, memo)
    ELSE LET out == Called(match_segments_with_memo_trace(
                               input_chars, i + 1, segments, segment_idx + 1, memo),
                           segment_idx + 1, segment_idx, TRUE)
         IN  IF ~out.ok \/ out.r THEN out
             ELSE After(out, wildcard_loop_trace(input_chars, i + 1, segments,
                                                 segment_idx, out.m))

\* for i in input_idx..input_chars.len() of the Globstar arm
globstar_loop_trace(input_chars, i, segments, segment_idx, memo) ==
    IF i >= Len(input_chars) THEN SegSum(FALSE, memo)
    ELSE LET out == Called(match_segments_with_memo_trace(
                               input_chars, i + 1, segments, segment_idx + 1, memo),
                           segment_idx + 1, segment_idx, TRUE)
         IN  IF ~out.ok \/ out.r THEN out
             ELSE After(out, globstar_loop_trace(input_chars, i + 1, segments,
                                                 segment_idx, out.m))

match_segments_recursive_optimized_trace(input_chars, input_idx, segments, segment_idx, memo) ==
    Frame(
    IF segment_idx >= Len(segments)
    THEN SegSum(input_idx >= Len(input_chars), memo)
    ELSE IF input_idx >= Len(input_chars)
    THEN IF ~InRange(segments, segment_idx, Len(segments)) THEN SegPanic(memo)
         ELSE SegSum(AllGlobstar(segments, segment_idx), memo)
    ELSE IF ~InIdx(segments, segment_idx) THEN SegPanic(memo)
    ELSE LET seg == At(segments, segment_idx)
         IN  CASE seg.kind = "Literal" ->
                    LET lit_chars == seg.text
                        test == literal_matches_trace(input_chars, input_idx, lit_chars)
                    IN  IF ~test.ok THEN SegPanic(memo)
                        ELSE IF test.r
                        THEN Called(match_segments_with_memo_trace(input_chars,
                                        input_idx + Len(lit_chars), segments,
                                        segment_idx + 1, memo),
                                    segment_idx + 1, segment_idx, TRUE)
                        ELSE SegSum(FALSE, memo)
               [] seg.kind = "Wildcard" ->
                    wildcard_loop_trace(input_chars, input_idx, segments,
                                        segment_idx, memo)
               [] seg.kind = "Globstar" ->
                    LET out == Called(match_segments_with_memo_trace(input_chars,
                                          input_idx, segments, segment_idx + 1, memo),
                                      segment_idx + 1, segment_idx, TRUE)
                    IN  IF ~out.ok \/ out.r THEN out
                        ELSE After(out, globstar_loop_trace(input_chars, input_idx,
                                            segments, segment_idx, out.m))
               [] seg.kind = "CharClass" ->
                    IF ~InIdx(input_chars, input_idx) THEN SegPanic(memo)
                    ELSE LET test == matches_char_class_trace(
                                         At(input_chars, input_idx), seg.text)
                         IN  IF ~test.ok THEN SegPanic(memo)
                             ELSE IF test.r
                             THEN Called(match_segments_with_memo_trace(input_chars,
                                             input_idx + 1, segments,
                                             segment_idx + 1, memo),
                                         segment_idx + 1, segment_idx, TRUE)
                             ELSE SegSum(FALSE, memo))

match_with_segments_trace(inp, segments) ==
    match_segments_with_memo_trace(inp, 0, segments, 0, EmptyMemo)

\* is_match, call by call: the summary of the matcher it hands the call to.
is_match_trace(inp, pat) ==
    IF ContainsDoubleSlash(inp) THEN Sum(FALSE)
    ELSE IF pat # <<>> /\ pat[1] = "*" /\ inp # <<>> /\ inp[1] = "."
    THEN Sum(FALSE)
    ELSE IF ~has_multiple_globstars_ok(pat, 0, 0) THEN Panic
    ELSE IF has_multiple_globstars(pat)
    THEN IF ~parse_glob_segments_ok(pat, 0) THEN Panic
         ELSE match_with_segments_trace(inp, parse_glob_segments(pat))
    ELSE match_pattern_trace(inp, pat, 0, 0)

----------------------------------------------------------------------------
(* Calls of is_match, step by step.  Each call has its own record: where it  *)
(* is (st), its arguments, the segment list, the stack of the calls of      *)
(* match_segments_with_memo it is in, and its return value.  A frame of the *)
(* stack holds the arguments input_idx (i) and segment_idx (s) of one call  *)
(* of match_segments_with_memo and where that call is (at):                 *)
(*   "lookup"  at memo.get(&key),                                           *)
(*   "body"    about to run match_segments_recursive_optimized,             *)
(*   "tail"    in the Literal or CharClass arm, waiting for the call whose  *)
(*             value it returns,                                            *)
(*   "zero"    in the Globstar arm, waiting for the zero-length attempt,    *)
(*   "loop"    at the head of the for loop of the Wildcard or Globstar arm, *)
(*             with the loop variable j,                                    *)
(*   "wait"    in that loop, waiting for the call made for j,               *)
(*   "insert"  at memo.insert(key, result), with the result r.              *)
(* bodies counts the runs of match_segments_recursive_optimized, hits the   *)
(* values read from the memo table, and log lists the pairs <<key, value>>  *)
(* inserted into the memo table, in order.                                  *)

Calls == {"c1", "c2"}

OffCall ==
    [st |-> "off", inp |-> <<>>, pat |-> <<>>, segs |-> <<>>, stack |-> <<>>,
     res |-> FALSE, bodies |-> 0, hits |-> 0, log |-> <<>>]

\* A call that has not started.
IdleCall(inp, pat) == [OffCall EXCEPT !.st = "idle", !.inp = inp, !.pat = pat]

NoCalls == [c \in Calls |-> OffCall]
NoMemos == [c \in Calls |-> EmptyMemo]

\* Mutant of memo_of: all calls use one memo table.
memo_of_shared(c) == "c1"

\* let mut memo = MemoCache::new(): the memo table is a local variable of
\* match_with_segments, each call has its own.
memo_of(c) == c

\* Mutant of MemoKey: the key leaves out the input index.
MemoKey_segment_only(input_idx, segment_idx) == <<0, segment_idx>>

\* let key = (input_idx, segment_idx)
MemoKey(input_idx, segment_idx) == <<input_idx, segment_idx>>

\* Mutant of memo_has: the table is never found to hold a key.
memo_has_never(memo, key) == FALSE

\* memo.get(&key) is Some
memo_has(memo, key) == key \in DOMAIN memo

NewFrame(i, s) == [i |-> i, s |-> s, at |-> "lookup", j |-> 0, r |-> FALSE]

Top(stack) == stack[Len(stack)]
Pop(stack) == SubSeq(stack, 1, Len(stack) - 1)
SetTop(stack, frame) == [stack EXCEPT ![Len(stack)] = frame]

\* The top frame has its result: it goes to memo.insert.
Finish(stack, r) == SetTop(stack, [Top(stack) EXCEPT !.at = "insert", !.r = r])

\* The top frame calls match_segments_with_memo(i, s) and waits for it.
Push(stack, at, i, s) ==
    Append(SetTop(stack, [Top(stack) EXCEPT !.at = at]), NewFrame(i, s))

\* The call on top of the stack has returned v and is popped: rest is the
\* stack below it.  The caller goes on from where it waited; when there is
\* no caller, v is the value of match_with_segments.
Deliver(call, rest, v) ==
    IF rest = <<>> THEN [call EXCEPT !.stack = <<>>, !.res = v]
    ELSE LET p == Top(rest)
         IN  [call EXCEPT !.stack =
                CASE p.at = "tail" -> Finish(rest, v)
                  [] p.at = "zero" ->
                        IF v THEN Finish(rest, TRUE)
                        ELSE SetTop(rest, [p EXCEPT !.at = "loop", !.j = p.i])
                  [] p.at = "wait" ->
                        IF v THEN Finish(rest, TRUE)
                        ELSE SetTop(rest, [p EXCEPT !.at = "loop", !.j = p.j + 1])]

\* match_segments_recursive_optimized up to its first call or its return.
BodyStack(call) ==
    LET stack == call.stack
        i == Top(stack).i
        s == Top(stack).s
    IN  IF s >= Len(call.segs) THEN Finish(stack, i >= Len(call.inp))
        ELSE IF i >= Len(call.inp) THEN Finish(stack, AllGlobstar(call.segs, s))
        ELSE LET seg == At(call.segs, s)
             IN  CASE seg.kind = "Literal" ->
                        IF /\ i + Len(seg.text) <= Len(call.inp)
                           /\ Slice(call.inp, i, i + Len(seg.text)) = seg.text
                        THEN Push(stack, "tail", i + Len(seg.text), s + 1)
                        ELSE Finish(stack, FALSE)
                   [] seg.kind = "Wildcard" ->
                        SetTop(stack, [Top(stack) EXCEPT !.at = "loop", !.j = i])
                   [] seg.kind = "Globstar" ->
                        Push(stack, "zero", i, s + 1)
                   [] seg.kind = "CharClass" ->
                        IF matches_char_class(At(call.inp, i), seg.text)
                        THEN Push(stack, "tail", i + 1, s + 1)
                        ELSE Finish(stack, FALSE)

\* Mutant of LoopStack: the loop of the Wildcard arm does not stop at '/'.
LoopStack_crossing(call) ==
    LET stack == call.stack
        j == Top(stack).j
        s == Top(stack).s
    IN  IF j >= Len(call.inp) THEN Finish(stack, FALSE)
        ELSE Push(stack, "wait", j + 1, s + 1)

\* One turn of the for loop of the Wildcard or Globstar arm.
LoopStack(call) ==
    LET stack == call.stack
        j == Top(stack).j
        s == Top(stack).s
    IN  IF j >= Len(call.inp) THEN Finish(stack, FALSE)
        ELSE IF At(call.segs, s).kind = "Wildcard" /\ At(call.inp, j) = "/"
        THEN Finish(stack, FALSE)
        ELSE Push(stack, "wait", j + 1, s + 1)

\* is_match up to the call of a matcher: a call of the direct matcher is one
\* step, a call of match_with_segments starts with an empty memo table.
Start(c) ==
    /\ calls[c].st = "idle"
    /\ LET call == calls[c]
       IN  IF \/ ContainsDoubleSlash(call.inp)
              \/ /\ call.pat # <<>> /\ call.pat[1] = "*"
                 /\ call.inp # <<>> /\ call.inp[1] = "."
           THEN /\ calls' = [calls EXCEPT ![c] = [call EXCEPT !.st = "done", !.res = FALSE]]
                /\ UNCHANGED memos
           ELSE IF has_multiple_globstars(call.pat)
           THEN /\ calls' = [calls EXCEPT ![c] =
                                [call EXCEPT !.st = "run",
                                             !.segs = parse_glob_segments(call.pat),
                                             !.stack = <<NewFrame(0, 0)>>]]
                /\ memos' = [memos EXCEPT ![memo_of(c)] = EmptyMemo]
           ELSE /\ calls' = [calls EXCEPT ![c] =
                                [call EXCEPT !.st = "done",
                                             !.res = match_pattern(call.inp, call.pat, 0, 0)]]
                /\ UNCHANGED memos
    /\ UNCHANGED <<input, pattern, pc, result>>

\* match_segments_with_memo: the key is looked up; a value found is returned.
Lookup(c) ==
    /\ calls[c].st = "run"
    /\ calls[c].stack # <<>>
    /\ Top(calls[c].stack).at = "lookup"
    /\ LET call == calls[c]
           top == Top(call.stack)
           memo == memos[memo_of(c)]
           key == MemoKey(top.i, top.s)
       IN  calls' = [calls EXCEPT ![c] =
                IF memo_has(memo, key)
                THEN Deliver([call EXCEPT !.hits = @ + 1], Pop(call.stack), memo[key])
                ELSE [call EXCEPT !.stack =
                         SetTop(call.stack, [top EXCEPT !.at = "body"])]]
    /\ UNCHANGED <<memos, input, pattern, pc, result>>

\* match_segments_recursive_optimized begins.
Body(c) ==
    /\ calls[c].st = "run"
    /\ calls[c].stack # <<>>
    /\ Top(calls[c].stack).at = "body"
    /\ calls' = [calls EXCEPT ![c] =
                    [calls[c] EXCEPT !.stack = BodyStack(calls[c]),
                                     !.bodies = calls[c].bodies + 1]]
    /\ UNCHANGED <<memos, input, pattern, pc, result>>

\* The for loop of the Wildcard or Globstar arm goes on.
Loop(c) ==
    /\ calls[c].st = "run"
    /\ calls[c].stack # <<>>
    /\ Top(calls[c].stack).at = "loop"
    /\ calls' = [calls EXCEPT ![c] = [calls[c] EXCEPT !.stack = LoopStack(calls[c])]]
    /\ UNCHANGED <<memos, input, pattern, pc, result>>

\* memo.insert(key, result), and match_segments_with_memo returns.
Insert(c) ==
    /\ calls[c].st = "run"
    /\ calls[c].stack # <<>>
    /\ Top(calls[c].stack).at = "insert"
    /\ LET call == calls[c]
           top == Top(call.stack)
           key == MemoKey(top.i, top.s)
       IN  /\ memos' = [memos EXCEPT ![memo_of(c)] = memo_insert(@, key, top.r)]
           /\ calls' = [calls EXCEPT ![c] =
                           Deliver([call EXCEPT !.log = Append(@, <<key, top.r>>)],
                                   Pop(call.stack), top.r)]
    /\ UNCHANGED <<input, pattern, pc, result>>

\* match_with_segments returns: the memo table is dropped with it.
Return(c) ==
    /\ calls[c].st = "run"
    /\ calls[c].stack = <<>>
    /\ calls' = [calls EXCEPT ![c] = [calls[c] EXCEPT !.st = "done"]]
    /\ memos' = [memos EXCEPT ![memo_of(c)] = EmptyMemo]
    /\ UNCHANGED <<input, pattern, pc, result>>

\* The same call is made once more.
Again(c) ==
    /\ calls[c].st = "done"
    /\ calls' = [calls EXCEPT ![c] = IdleCall(calls[c].inp, calls[c].pat)]
    /\ UNCHANGED <<memos, input, pattern, pc, result>>

NextSteps ==
    \E c \in Calls :
        \/ Start(c)
        \/ Lookup(c)
        \/ Body(c)
        \/ Loop(c)
        \/ Insert(c)
        \/ Return(c)
        \/ Again(c)

----------------------------------------------------------------------------
(* One call in one step: the inputs of the call are drawn in the initial   *)
(* state, and the call computes its result.                                 *)

\* is_match(input, pattern), from the call to its return value.
IsMatch ==
    /\ pc = "call"
    /\ result' = is_match(input, pattern)
    /\ pc' = "done"
    /\ UNCHANGED <<input, pattern, calls, memos>>

Next == IsMatch

\* All sequences over the set S of length at most n.
RECURSIVE StrsOfLen(_, _)
StrsOfLen(S, n) ==
    IF n = 0 THEN {<<>>}
    ELSE {Append(s, c) : s \in StrsOfLen(S, n - 1), c \in S}

Strs(S, n) == UNION {StrsOfLen(S, k) : k \in 0..n}

MaxInputLen == 3
MaxPatternLen == 4
MaxTailLen == 2

PathChars == {"a", "/", "."}
PatternChars == {"a", "/", ".", "*", "?"}

\* A pattern head that routes the call to the segment-based matcher.
MultiHead == <<"*", "*", "/", "*", "*", "/">>

Paths == Strs(PathChars, MaxInputLen)
Patterns ==
    Strs(PatternChars, MaxPatternLen)
        \cup {MultiHead \o t : t \in Strs(PatternChars, MaxTailLen)}

Init ==
    /\ input \in Paths
    /\ pattern \in Patterns
    /\ pc = "call"
    /\ result = FALSE
    /\ calls = NoCalls
    /\ memos = NoMemos

Spec == Init /\ [][Next]_vars

----------------------------------------------------------------------------
(* Properties of calls on arbitrary short paths and patterns (Spec) *)

Done == pc = "done"

\* Number of occurrences of the character c in s.
Count(s, c) == Cardinality({i \in 1..Len(s) : s[i] = c})

\* s is made only of ordinary characters: none of '*', '?', '['.
Ordinary(s) == \A i \in 1..Len(s) : s[i] \notin {"*", "?", "["}

\* C1: a path that contains two consecutive '/' is rejected, whatever the
\* pattern is.
C1_DoubleSlashRejected ==
    Done /\ (\E i \in 1..(Len(input) - 1) : input[i] = "/" /\ input[i + 1] = "/")
        => result = FALSE

\* C1 witness: a path with "//" was rejected although the pattern is the
\* path itself, which the matcher would accept.
C1_Witness ==
    /\ Done
    /\ input = <<"a", "/", "/">>
    /\ pattern = input
    /\ match_pattern(input, pattern, 0, 0)
    /\ result = FALSE

\* C2: dot-file gating: a pattern whose first character is '*' never accepts
\* a path whose first character is '.'.
C2_DotFileGate ==
    Done /\ pattern # <<>> /\ pattern[1] = "*" /\ input # <<>> /\ input[1] = "."
        => result = FALSE

\* C2 witness: ".a" was rejected by "*.a" although the matcher would accept
\* the rest.
C2_Witness ==
    /\ Done
    /\ input = <<".", "a">>
    /\ pattern = <<"*", ".", "a">>
    /\ match_pattern(input, pattern, 0, 0)
    /\ result = FALSE

\* C3 as stated: a pattern s of ordinary characters accepts s itself and no
\* other string.
C3_LiteralExactOriginal ==
    Done /\ Ordinary(pattern) => result = (input = pattern)

\* C3 amended: a pattern s of ordinary characters accepts exactly the string
\* s, and nothing at all when s contains "//".
C3_LiteralExact ==
    Done /\ Ordinary(pattern)
        => result = (input = pattern /\ ~ContainsDoubleSlash(pattern))

\* C3 witness: a non-empty literal pattern accepted the path equal to it.
C3_Witness ==
    /\ Done
    /\ Ordinary(pattern)
    /\ Len(pattern) >= 3
    /\ Contains(pattern, "/")
    /\ input = pattern
    /\ result = TRUE

\* The patterns of C6: literal characters, '?' and single '*', with no two
\* adjacent '*' and no '['.
SingleStarPattern(p) ==
    /\ \A i \in 1..Len(p) : p[i] # "["
    /\ \A i \in 1..(Len(p) - 1) : ~(p[i] = "*" /\ p[i + 1] = "*")

\* C6: a single '*' (and a '?') never consumes a '/': a path accepted by a
\* pattern without globstar and class has as many '/' as the pattern.
C6_StarStaysInComponent ==
    Done /\ SingleStarPattern(pattern) /\ result
        => Count(input, "/") = Count(pattern, "/")

\* C6 witness: a pattern with a '*' after a '/' accepted a path, the '*'
\* consuming a non-empty component.
C6_Witness ==
    /\ Done
    /\ pattern = <<"a", "/", "*">>
    /\ input = <<"a", "/", "a">>
    /\ result = TRUE

\* The pattern p with its first '?' replaced by the character c.
RECURSIVE SubstFirstQ(_, _)
SubstFirstQ(p, c) ==
    IF p = <<>> THEN <<>>
    ELSE IF Head(p) = "?" THEN <<c>> \o Tail(p)
    ELSE <<Head(p)>> \o SubstFirstQ(Tail(p), c)

\* p is h followed by literal characters and at least one '?'.
QuestionAfter(p, h) ==
    /\ Len(p) > Len(h)
    /\ SubSeq(p, 1, Len(h)) = h
    /\ LET t == SubSeq(p, Len(h) + 1, Len(p))
       IN  Contains(t, "?") /\ \A i \in 1..Len(t) : t[i] \notin {"*", "["}

\* C7: a '?' matches exactly one character other than '/': a pattern with a
\* '?' accepts a path iff the pattern with that '?' replaced by some
\* character other than '/' accepts it, in the direct matcher (no globstar)
\* and in the segment-based matcher (after the head "**/**/").
C7_QuestionOneChar ==
    Done /\ (QuestionAfter(pattern, <<>>) \/ QuestionAfter(pattern, MultiHead))
        => result = (\E c \in PathChars \ {"/"} :
                        is_match(input, SubstFirstQ(pattern, c)))

\* The part of C7 about the direct matcher.
C7_QuestionOneCharDirect ==
    Done /\ QuestionAfter(pattern, <<>>)
        => result = (\E c \in PathChars \ {"/"} :
                        is_match(input, SubstFirstQ(pattern, c)))

----------------------------------------------------------------------------
(* Single-globstar patterns on paths made of components (SpecGlob) *)

MaxDepth == 4

\* Names of path components: directories and files, some with extensions.
GlobNames ==
    { <<"s">>, <<"d">>, <<"f">>, <<".", "j">>, <<"f", ".", "j">>,
      <<"f", ".", "g", ".", "j">> }

\* The components joined by '/'.
RECURSIVE JoinPath(_)
JoinPath(comps) ==
    IF Len(comps) = 0 THEN <<>>
    ELSE IF Len(comps) = 1 THEN comps[1]
    ELSE comps[1] \o <<"/">> \o JoinPath(Tail(comps))

GlobPaths == {JoinPath(comps) : comps \in Strs(GlobNames, MaxDepth) \ {<<>>}}

\* L of the patterns L/**/*.E, and E
C4Prefixes == { <<"s">>, <<"s", "/", "d">> }
C4Exts == { <<"j">>, <<"g", ".", "j">> }
C4Pattern(L, E) == L \o <<"/", "*", "*", "/", "*", ".">> \o E

\* A of the patterns A**/S, and S
C5Prefixes == { <<>>, <<"s", "/">>, <<"s", "/", "d", "/">> }
C5Suffixes == { <<"s">>, <<".", "j">>, <<"f", ".", "j">>, <<"d", "/", "f", ".", "j">> }
C5Pattern(A, S) == A \o <<"*", "*", "/">> \o S

GlobPatterns ==
    {C4Pattern(L, E) : L \in C4Prefixes, E \in C4Exts}
        \cup {C5Pattern(A, S) : A \in C5Prefixes, S \in C5Suffixes}

InitGlob ==
    /\ input \in GlobPaths
    /\ pattern \in GlobPatterns
    /\ pc = "call"
    /\ result = FALSE
    /\ calls = NoCalls
    /\ memos = NoMemos

SpecGlob == InitGlob /\ [][Next]_vars

IsPrefix(p, s) == Len(p) <= Len(s) /\ SubSeq(s, 1, Len(p)) = p
IsSuffix(p, s) == Len(p) <= Len(s) /\ SubSeq(s, Len(s) - Len(p) + 1, Len(s)) = p
DropPrefix(p, s) == SubSeq(s, Len(p) + 1, Len(s))

C4_WitnessDeep ==
    /\ Done
    /\ pattern = C4Pattern(<<"s">>, <<"j">>)
    /\ input = <<"s", "/", "d", "/", "s", "/", "f", ".", "j">>
    /\ result = TRUE

\* C5: A**/S with a literal suffix S accepts A S (no intermediate directory)
\* and A D/S for every non-empty directory sequence D, for paths that do not
\* begin with '.'.
C5_LiteralSuffixZeroDirs ==
    \A A \in C5Prefixes, S \in C5Suffixes :
        /\ Done
        /\ pattern = C5Pattern(A, S)
        /\ input[1] # "."
        /\ IsPrefix(A, input)
        /\ LET rest == DropPrefix(A, input)
           IN  \/ rest = S
               \/ IsSuffix(<<"/">> \o S, rest) /\ Len(rest) > Len(S) + 1
        => result = TRUE

\* C5 witness: s/**/f.j accepted s/f.j, with no intermediate directory.
C5_Witness ==
    /\ Done
    /\ pattern = C5Pattern(<<"s", "/">>, <<"f", ".", "j">>)
    /\ input = <<"s", "/", "f", ".", "j">>
    /\ result = TRUE

----------------------------------------------------------------------------
(* Patterns with one character class (SpecClass) *)

MaxClassLen == 3
MaxClassInputLen == 2

ClassChars == {"a", "z", "-", "^"}
ClassInputChars == {"-", "/", "[", "a", "m", "z"}

ClassContents == Strs(ClassChars, MaxClassLen)
\* What follows the class content: the closing ']' or nothing, then a
\* literal or nothing.
ClassCloses == { <<"]">>, <<>> }
ClassPosts == { <<>>, <<"m">> }
ClassHeads == { <<>>, MultiHead }

ClassPattern(head, content, close, post) ==
    head \o <<"[">> \o content \o close \o post

ClassPatterns ==
    {ClassPattern(h, c, cl, po) :
        h \in ClassHeads, c \in ClassContents, cl \in ClassCloses, po \in ClassPosts}

InitClass ==
    /\ input \in Strs(ClassInputChars, MaxClassInputLen)
    /\ pattern \in ClassPatterns
    /\ pc = "call"
    /\ result = FALSE
    /\ calls = NoCalls
    /\ memos = NoMemos

SpecClass == InitClass /\ [][Next]_vars

\* s with every '[' replaced by the ordinary character 'y', which occurs in
\* no path and no pattern of SpecClass.
RECURSIVE BracketAsLetter(_)
BracketAsLetter(s) ==
    IF s = <<>> THEN <<>>
    ELSE <<IF Head(s) = "[" THEN "y" ELSE Head(s)>> \o BracketAsLetter(Tail(s))

\* C8: an unterminated '[' is matched like an ordinary character: a pattern
\* without ']' gives the result that the same call gives with an ordinary
\* letter in place of every '[' of the pattern and of the path, in the direct
\* matcher and in the segment-based matcher (after the head "**/**/").
C8_UnterminatedIsLiteral ==
    Done /\ Contains(pattern, "[") /\ ~Contains(pattern, "]")
        => result = is_match(BracketAsLetter(input), BracketAsLetter(pattern))

\* The part of C8 about the direct matcher.
C8_UnterminatedIsLiteralDirect ==
    Done /\ Contains(pattern, "[") /\ ~Contains(pattern, "]")
         /\ ~IsPrefix(MultiHead, pattern)
        => result = is_match(BracketAsLetter(input), BracketAsLetter(pattern))

\* The items of a class content read left to right: <<x, y>> for a triple
\* x-y, <<x, x>> for a single character x.
RECURSIVE ClassItems(_)
ClassItems(body) ==
    IF body = <<>> THEN <<>>
    ELSE IF Len(body) >= 3 /\ body[2] = "-"
         THEN << <<body[1], body[3]>> >> \o ClassItems(SubSeq(body, 4, Len(body)))
         ELSE << <<body[1], body[1]>> >> \o ClassItems(Tail(body))

\* c is one of the listed characters or lies in one of the listed ranges.
Listed(c, body) ==
    \E k \in 1..Len(ClassItems(body)) :
        /\ Code(ClassItems(body)[k][1]) <= Code(c)
        /\ Code(c) <= Code(ClassItems(body)[k][2])

Negated(content) == content # <<>> /\ content[1] = "^"
ClassBody(content) == IF Negated(content) THEN Tail(content) ELSE content

\* The class with this content accepts c: listed XOR negated.
ClassAccepts(content, c) == Listed(c, ClassBody(content)) # Negated(content)

\* The content and the rest of a pattern that starts with a terminated class.
FirstClose(p) == CHOOSE i \in 1..Len(p) : p[i] = "]" /\ \A j \in 1..(i - 1) : p[j] # "]"
ContentOf(p) == SubSeq(p, 2, FirstClose(p) - 1)
AfterClass(p) == SubSeq(p, FirstClose(p) + 1, Len(p))

\* C9: a terminated class accepts a character iff it is listed XOR the
\* content begins with '^'; it consumes exactly that one character and the
\* pattern continues after the ']'.  In the direct matcher a pattern
\* [content]post thus accepts exactly the paths c post with c accepted by the
\* class; in the segment-based matcher, after the head "**/**/", exactly
\* the paths that end in such a c post.
C9_ClassMembership ==
    /\ Done /\ IsPrefix(<<"[">>, pattern) /\ Contains(pattern, "]")
          => result = (/\ input # <<>>
                       /\ ~ContainsDoubleSlash(input)
                       /\ ClassAccepts(ContentOf(pattern), input[1])
                       /\ Tail(input) = AfterClass(pattern))
    /\ Done /\ IsPrefix(MultiHead, pattern) /\ Contains(pattern, "]")
          => LET p == DropPrefix(MultiHead, pattern)
             IN  result = (/\ ~ContainsDoubleSlash(input)
                           /\ \E k \in 1..Len(input) :
                                 /\ ClassAccepts(ContentOf(p), input[k])
                                 /\ SubSeq(input, k + 1, Len(input)) = AfterClass(p))

\* C9 witness: the class [a-z] accepted a character inside the range and
\* the pattern went on after the ']'.
C9_Witness ==
    /\ Done
    /\ pattern = <<"[", "a", "-", "z", "]", "m">>
    /\ input = <<"m", "m">>
    /\ result = TRUE

\* C9 second case: a negated class accepted a character it does not list.
C9_WitnessNegated ==
    /\ Done
    /\ pattern = <<"[", "^", "a", "]", "m">>
    /\ input = <<"/", "m">>
    /\ result = TRUE

\* p is the pattern [body] with a non-empty body that is not negated.
PlainClass(p) ==
    /\ Len(p) >= 3
    /\ p[1] = "["
    /\ p[2] # "^"
    /\ FirstClose(p) = Len(p)

\* C10 as stated: a hyphen that is first or last in the content is an
\* ordinary member, so the class accepts '-'.
C10_EdgeHyphenOriginal ==
    /\ Done
    /\ Contains(pattern, "]")
    /\ PlainClass(pattern)
    /\ LET body == ContentOf(pattern)
       IN  body[1] = "-" \/ body[Len(body)] = "-"
    /\ input = <<"-">>
    => result = TRUE

\* The index i of body is the first or the third character of a triple x-y.
RECURSIVE RangeEndpoint(_, _)
RangeEndpoint(body, i) ==
    IF body = <<>> THEN FALSE
    ELSE IF Len(body) >= 3 /\ body[2] = "-"
         THEN i \in {1, 3} \/ RangeEndpoint(SubSeq(body, 4, Len(body)), i - 3)
         ELSE RangeEndpoint(Tail(body), i - 1)

\* C10 amended: a hyphen that is first or last in the content is an ordinary
\* member unless it is itself the start or the end of a triple x-y; and
\* [a-] accepts exactly 'a' and '-', [-z] exactly '-' and 'z', [-] exactly '-'.
C10_EdgeHyphen ==
    /\ /\ Done
       /\ Contains(pattern, "]")
       /\ PlainClass(pattern)
       /\ LET body == ContentOf(pattern)
          IN  \/ body[1] = "-" /\ ~RangeEndpoint(body, 1)
              \/ body[Len(body)] = "-" /\ ~RangeEndpoint(body, Len(body))
       /\ input = <<"-">>
       => result = TRUE
    /\ Done /\ Len(input) = 1 /\ pattern = <<"[", "a", "-", "]">>
          => result = (input[1] \in {"a", "-"})
    /\ Done /\ Len(input) = 1 /\ pattern = <<"[", "-", "z", "]">>
          => result = (input[1] \in {"-", "z"})
    /\ Done /\ Len(input) = 1 /\ pattern = <<"[", "-", "]">>
          => result = (input[1] = "-")

\* C10 witness: [a-] accepted '-'.
C10_Witness ==
    /\ Done
    /\ pattern = <<"[", "a", "-", "]">>
    /\ input = <<"-">>
    /\ result = TRUE

----------------------------------------------------------------------------
(* Reversed ranges *)

\* p is a terminated class [content] and nothing else, and the body of the
\* content (the content after a leading '^') begins with a triple x-y
\* whose start has a larger code point than its end.
ReversedHead(p) ==
    /\ Len(p) >= 2
    /\ p[1] = "["
    /\ Contains(p, "]")
    /\ FirstClose(p) = Len(p)
    /\ LET body == ClassBody(ContentOf(p))
       IN  /\ Len(body) >= 3
           /\ body[2] = "-"
           /\ Code(body[1]) > Code(body[3])

\* What follows the reversed triple in the body of the class of p.
AfterReversedHead(p) ==
    LET body == ClassBody(ContentOf(p))
    IN  SubSeq(body, 4, Len(body))

\* C11: a reversed range such as z-a contributes no members to its class:
\* the call returns a boolean (no error), the class accepts a character iff
\* what follows the reversed triple lists it (XOR negation), and a class
\* that lists nothing but the reversed range accepts no character at all.
C11_ReversedRangeEmpty ==
    Done /\ ReversedHead(pattern)
        => /\ result \in BOOLEAN
           /\ result = (/\ Len(input) = 1
                        /\ Listed(input[1], AfterReversedHead(pattern))
                              # Negated(ContentOf(pattern)))
           /\ ContentOf(pattern) = <<pattern[2], "-", pattern[4]>> => result = FALSE

\* C11 witness: [z-a] was tried on 'm', which lies between 'a' and 'z', and
\* rejected it.
C11_Witness ==
    /\ Done
    /\ pattern = <<"[", "z", "-", "a", "]">>
    /\ input = <<"m">>
    /\ result = FALSE

----------------------------------------------------------------------------
(* A globstar at the end of the pattern *)

\* The dot-file check of is_match rejects the call.
DotGate(inp, pat) == pat # <<>> /\ pat[1] = "*" /\ inp # <<>> /\ inp[1] = "."

EndsWithGlobstar(p) == IsSuffix(<<"*", "*">>, p)
EndsWithGlobstarSlash(p) == IsSuffix(<<"*", "*", "/">>, p)

\* The literal A of a pattern A** or A**/.
BeforeGlobstar(p) ==
    IF EndsWithGlobstar(p) THEN SubSeq(p, 1, Len(p) - 2) ELSE SubSeq(p, 1, Len(p) - 3)

\* p is A** or A**/ with A literal.
TrailingGlobstar(p) ==
    /\ EndsWithGlobstar(p) \/ EndsWithGlobstarSlash(p)
    /\ Ordinary(BeforeGlobstar(p))

\* C14 as stated: A** and A**/ accept every path that starts with A,
\* whatever follows A, the empty suffix included (paths with "//" and calls
\* stopped by the dot-file check apart).
C14_TrailingGlobstarOriginal ==
    /\ Done
    /\ TrailingGlobstar(pattern)
    /\ ~ContainsDoubleSlash(input)
    /\ ~DotGate(input, pattern)
    /\ IsPrefix(BeforeGlobstar(pattern), input)
    => result = TRUE

\* C14 amended: A** accepts every path that starts with A; A**/ accepts
\* every path that starts with A and goes on after it, and rejects the path
\* A itself (paths with "//" and calls stopped by the dot-file check apart).
C14_TrailingGlobstar ==
    /\ Done
    /\ TrailingGlobstar(pattern)
    /\ ~ContainsDoubleSlash(input)
    /\ ~DotGate(input, pattern)
    /\ IsPrefix(BeforeGlobstar(pattern), input)
    => result = ~(EndsWithGlobstarSlash(pattern) /\ input = BeforeGlobstar(pattern))

\* C14 witness: a**/ accepted a path that goes on after "a" with a '/'.
C14_Witness ==
    /\ Done
    /\ pattern = <<"a", "*", "*", "/">>
    /\ input = <<"a", "/", "a">>
    /\ result = TRUE

\* C14 second case: a** accepted the path "a", with nothing left for the
\* globstar.
C14_WitnessEmptySuffix ==
    /\ Done
    /\ pattern = <<"a", "*", "*">>
    /\ input = <<"a">>
    /\ result = TRUE

----------------------------------------------------------------------------
(* Where the pattern resumes after a globstar followed by '/' *)

\* C17: for a pattern A**/S with S literal, an accepted path starts with A,
\* ends with S, and S begins right after A (the zero-length attempt) or
\* right after a '/'.
C17_ResumeAtBoundary ==
    \A A \in C5Prefixes, S \in C5Suffixes :
        Done /\ pattern = C5Pattern(A, S) /\ result = TRUE
            => /\ IsPrefix(A, input)
               /\ LET rest == DropPrefix(A, input)
                  IN  /\ IsSuffix(S, rest)
                      /\ \/ Len(rest) = Len(S)
                         \/ rest[Len(rest) - Len(S)] = "/"

----------------------------------------------------------------------------
(* The classifier *)

\* p contains two "**" that do not overlap.
TwoGlobstarTokens(p) ==
    \E i, j \in 1..(Len(p) - 1) :
        /\ i + 2 <= j
        /\ p[i] = "*" /\ p[i + 1] = "*"
        /\ p[j] = "*" /\ p[j + 1] = "*"

\* C18: has_multiple_globstars is true iff the pattern contains two or more
\* non-overlapping "**": false for "***", true for "****".
C18_Classifier ==
    /\ has_multiple_globstars(pattern) = TwoGlobstarTokens(pattern)
    /\ pattern = <<"*", "*", "*">> => ~has_multiple_globstars(pattern)
    /\ pattern = <<"*", "*", "*", "*">> => has_multiple_globstars(pattern)

\* C18 witness: a call with the pattern "****", which the classifier sends
\* to the segment-based matcher, has returned.
C18_Witness ==
    /\ Done
    /\ pattern = <<"*", "*", "*", "*">>
    /\ has_multiple_globstars(pattern)

\* C18 second case: a call with the pattern "***", which the classifier
\* leaves to the direct matcher, has returned.
C18_WitnessThreeStars ==
    /\ Done
    /\ pattern = <<"*", "*", "*">>
    /\ ~has_multiple_globstars(pattern)

----------------------------------------------------------------------------
(* Routing: patterns with '*' and brackets (SpecRoute) *)

MaxRouteLen == 5
MaxRouteInputLen == 1

RouteChars == {"*", "[", "]", "^", "/"}
RouteInputChars == {"^", "/", "["}

InitRoute ==
    /\ input \in Strs(RouteInputChars, MaxRouteInputLen)
    /\ pattern \in Strs(RouteChars, MaxRouteLen)
    /\ pc = "call"
    /\ result = FALSE
    /\ calls = NoCalls
    /\ memos = NoMemos

SpecRoute == InitRoute /\ [][Next]_vars

\* is_match hands the call to the segment-based matcher.
Routed(inp, pat) ==
    /\ ~ContainsDoubleSlash(inp)
    /\ ~DotGate(inp, pat)
    /\ has_multiple_globstars(pat)

\* Number of Globstar segments in a segment list.
GlobstarCount(segments) ==
    Cardinality({k \in 1..Len(segments) : segments[k] = Globstar})

\* C19: whenever is_match routes a pattern to the segment-based matcher, the
\* segment list parse_glob_segments produces for it holds at least two
\* Globstar segments.
C19_RoutedHasTwoGlobstars ==
    Done /\ Routed(input, pattern)
        => GlobstarCount(parse_glob_segments(pattern)) >= 2

----------------------------------------------------------------------------
(* Termination and totality *)

\* is_match hands the call to the direct matcher.
Direct(inp, pat) ==
    /\ ~ContainsDoubleSlash(inp)
    /\ ~DotGate(inp, pat)
    /\ ~has_multiple_globstars(pat)

\* C12 as stated: every call made inside the direct matcher passes a
\* strictly larger pattern index than that of its caller, every call inside
\* the segment-based matcher a strictly larger segment index, and the number
\* of nested calls is at most pattern length + 1, respectively number of
\* segments + 1.
C12_TerminationOriginal ==
    Done => LET t == is_match_trace(input, pattern)
            IN  /\ t.strict
                /\ Direct(input, pattern) => t.d <= Len(pattern) + 1
                /\ Routed(input, pattern)
                      => t.d <= Len(parse_glob_segments(pattern)) + 1

\* C12 amended: every call ends, with the value is_match returns; no call
\* passes a smaller index than that of its caller, and the index grows
\* wherever the code adds to it (everywhere but match_pattern calling
\* match_character_class, match_globstar resuming match_pattern when no '/'
\* follows the globstar, and match_segments_with_memo calling
\* match_segments_recursive_optimized); the nested calls of match_pattern
\* are at most pattern length + 1 and all nested calls at most twice the
\* pattern length + 1; the nested calls of match_segments_with_memo are at
\* most number of segments + 1 and all nested calls at most twice that.
C12_Termination ==
    Done => LET t == is_match_trace(input, pattern)
            IN  /\ t.r = result
                /\ t.mono
                /\ Direct(input, pattern)
                      => /\ t.lv <= Len(pattern) + 1
                         /\ t.d <= 2 * Len(pattern) + 1
                /\ Routed(input, pattern)
                      => /\ t.lv <= Len(parse_glob_segments(pattern)) + 1
                         /\ t.d <= 2 * (Len(parse_glob_segments(pattern)) + 1)

\* C12 witness: the direct matcher went through the pattern "[^" on the
\* input "[": match_pattern, match_character_class and match_pattern again,
\* three calls deep for a pattern index that went from 0 to 1.
C12_Witness ==
    /\ Done
    /\ pattern = <<"[", "^">>
    /\ input = <<"[">>
    /\ is_match_trace(input, pattern).d = 3
    /\ is_match_trace(input, pattern).lv = 2

\* C12 second case: the segment-based matcher went through the three
\* segments of "****^" down to the end of the segment list.
C12_WitnessSegments ==
    /\ Done
    /\ pattern = <<"*", "*", "*", "*", "^">>
    /\ input = <<"^">>
    /\ result = TRUE
    /\ is_match_trace(input, pattern).lv = 4
    /\ is_match_trace(input, pattern).d = 8

\* C13: is_match is total: for every path and pattern, malformed patterns
\* included, every index and slice access made along the call is within
\* bounds and the call returns a boolean.
C13_Total ==
    Done => /\ is_match_trace(input, pattern).ok
            /\ is_match_trace(input, pattern).r = result
            /\ result \in BOOLEAN

\* C13 witness: a call routed to the segment-based matcher with an
\* unterminated class has returned.
C13_Witness ==
    /\ Done
    /\ pattern = <<"*", "*", "*", "*", "[">>
    /\ input = <<"^">>
    /\ result = FALSE

\* C13 second case: the direct matcher returned for the class "[^]" and for
\* a trailing '*' on an empty input.
C13_WitnessDirect ==
    /\ Done
    /\ \/ pattern = <<"[", "^", "]">> /\ input = <<"/">> /\ result = TRUE
       \/ pattern = <<"^", "*">> /\ input = <<>> /\ result = FALSE

----------------------------------------------------------------------------
(* One call of the segment-based matcher, step by step (SpecSteps) *)

MaxStepInputLen == 4
MaxStepTailLen == 3

StepInputChars == {"a", "/"}
StepTailChars == {"a", "*", "/"}

StepInputs == Strs(StepInputChars, MaxStepInputLen)
\* Patterns with two globstars or more, and one for the direct matcher.
StepPatterns ==
    {MultiHead \o t :
        t \in Strs(StepTailChars, MaxStepTailLen)
                 \cup { <<"[", "a", "]">>, <<"[", "a">> }}
        \cup { <<"a", "*">> }

InitSteps ==
    /\ input = <<>>
    /\ pattern = <<>>
    /\ pc = "steps"
    /\ result = FALSE
    /\ calls \in {[c \in Calls |-> IF c = "c1" THEN IdleCall(i, p) ELSE OffCall] :
                      i \in StepInputs, p \in StepPatterns}
    /\ memos = NoMemos

SpecSteps == InitSteps /\ [][NextSteps]_vars

RECURSIVE match_segments_plain(_, _, _, _)
RECURSIVE wildcard_loop_plain(_, _, _, _)
RECURSIVE globstar_loop_plain(_, _, _, _)

\* The for loop of the Wildcard arm, without memo table.
wildcard_loop_plain(input_chars, i, segments, segment_idx) ==
    IF i >= Len(input_chars) THEN FALSE
    ELSE IF At(input_chars, i) = "/" THEN FALSE
    ELSE IF match_segments_plain(input_chars, i + 1, segments, segment_idx + 1)
    THEN TRUE
    ELSE wildcard_loop_plain(input_chars, i + 1, segments, segment_idx)

\* The for loop of the Globstar arm, without memo table.
globstar_loop_plain(input_chars, i, segments, segment_idx) ==
    IF i >= Len(input_chars) THEN FALSE
    ELSE IF match_segments_plain(input_chars, i + 1, segments, segment_idx + 1)
    THEN TRUE
    ELSE globstar_loop_plain(input_chars, i + 1, segments, segment_idx)

\* The recursion of match_segments_recursive_optimized without memo table:
\* every call of match_segments_with_memo runs the body.
match_segments_plain(input_chars, input_idx, segments, segment_idx) ==
    IF segment_idx >= Len(segments) THEN input_idx >= Len(input_chars)
    ELSE IF input_idx >= Len(input_chars) THEN AllGlobstar(segments, segment_idx)
    ELSE LET seg == At(segments, segment_idx)
         IN  CASE seg.kind = "Literal" ->
                    IF /\ input_idx + Len(seg.text) <= Len(input_chars)
                       /\ Slice(input_chars, input_idx,
                                input_idx + Len(seg.text)) = seg.text
                    THEN match_segments_plain(input_chars, input_idx + Len(seg.text),
                                              segments, segment_idx + 1)
                    ELSE FALSE
               [] seg.kind = "Wildcard" ->
                    wildcard_loop_plain(input_chars, input_idx, segments, segment_idx)
               [] seg.kind = "Globstar" ->
                    IF match_segments_plain(input_chars, input_idx, segments,
                                            segment_idx + 1)
                    THEN TRUE
                    ELSE globstar_loop_plain(input_chars, input_idx, segments,
                                             segment_idx)
               [] seg.kind = "CharClass" ->
                    IF matches_char_class(At(input_chars, input_idx), seg.text)
                    THEN match_segments_plain(input_chars, input_idx + 1, segments,
                                              segment_idx + 1)
                    ELSE FALSE

\* The frames of a stack whose call of match_segments_recursive_optimized
\* has begun.
InBody(stack) ==
    {n \in 1..Len(stack) : stack[n].at \notin {"lookup", "body"}}

\* C16: within one call of match_with_segments, no key is inserted into the
\* memo table twice, and the table holds exactly what was inserted, with the
\* value inserted (nothing is overwritten or removed); each run of the
\* matcher body ends in one insertion, so the body runs once per key, at
\* most (|input| + 1) x (|segments| + 1) times.
C16_MemoOnce ==
    \A c \in Calls :
        LET call == calls[c]
            memo == memos[memo_of(c)]
        IN  /\ call.st = "run"
                  => /\ DOMAIN memo = {call.log[n][1] : n \in 1..Len(call.log)}
                     /\ \A n \in 1..Len(call.log) : memo[call.log[n][1]] = call.log[n][2]
                     /\ call.bodies = Len(call.log) + Cardinality(InBody(call.stack))
            /\ call.st = "done" /\ call.segs # <<>> => call.bodies = Len(call.log)
            /\ \A m, n \in 1..Len(call.log) :
                  m # n => call.log[m][1] # call.log[n][1]
            /\ call.bodies <= (Len(call.inp) + 1) * (Len(call.segs) + 1)

\* C16 witness: a call with three globstars on a path it rejects has
\* returned; it read keys it needed again from the memo table, and the
\* body ran once for each key it inserted.
C16_Witness ==
    /\ calls["c1"].st = "done"
    /\ calls["c1"].pat = MultiHead \o <<"*", "*", "a">>
    /\ calls["c1"].inp = <<"a", "/">>
    /\ calls["c1"].res = FALSE
    /\ calls["c1"].hits > 0
    /\ calls["c1"].bodies = Len(calls["c1"].log)
    /\ calls["c1"].bodies > 3

\* C20: memoization is sound: every value in the memo table, every value a
\* call of match_segments_with_memo is about to return and the value of
\* match_with_segments is the value of the recursion without memo table at
\* the same position.
C20_MemoSound ==
    \A c \in Calls :
        LET call == calls[c]
            memo == memos[memo_of(c)]
            plain(i, s) == match_segments_plain(call.inp, i, call.segs, s)
        IN  /\ call.st = "run"
                  => /\ \A k \in DOMAIN memo : memo[k] = plain(k[1], k[2])
                     /\ \A n \in 1..Len(call.stack) :
                            call.stack[n].at = "insert"
                                => call.stack[n].r = plain(call.stack[n].i, call.stack[n].s)
                     /\ call.stack = <<>> => call.res = plain(0, 0)
            /\ call.st = "done" /\ call.segs # <<>> => call.res = plain(0, 0)

\* C20 witness: a call has returned after reading values from the memo
\* table.
C20_Witness ==
    /\ calls["c1"].st = "done"
    /\ calls["c1"].hits > 0
    /\ calls["c1"].pat = MultiHead \o <<"a">>
    /\ calls["c1"].inp = <<"a", "/">>
    /\ calls["c1"].res = FALSE

----------------------------------------------------------------------------
(* Two calls at the same time (SpecPar) *)

MaxParInputLen == 2

ParInputs == Strs(StepInputChars, MaxParInputLen)
ParPatterns == { MultiHead, MultiHead \o <<"a">>, MultiHead \o <<"*">>, <<"a">> }

InitPar ==
    /\ input = <<>>
    /\ pattern = <<>>
    /\ pc = "steps"
    /\ result = FALSE
    /\ calls \in [Calls -> {IdleCall(i, p) : i \in ParInputs, p \in ParPatterns}]
    /\ memos = NoMemos

SpecPar == InitPar /\ [][NextSteps]_vars

\* C15: calls are independent: however the steps of the calls interleave
\* and however often a call is repeated, each call returns is_match of its
\* own path and pattern, and a call that is not running has left no memo
\* entry behind.
C15_Independent ==
    \A c \in Calls :
        /\ calls[c].st = "done" => calls[c].res = is_match(calls[c].inp, calls[c].pat)
        /\ calls[c].st \in {"idle", "done"} => memos[memo_of(c)] = EmptyMemo

\* C15 witness: the second call ran from start to end while the first one
\* was in the middle of its recursion, with entries in its memo table, on a
\* different path.
C15_Witness ==
    /\ calls["c1"].st = "run"
    /\ memos["c1"] # EmptyMemo
    /\ calls["c2"].st = "done"
    /\ calls["c2"].segs # <<>>
    /\ calls["c1"].inp # calls["c2"].inp
    /\ calls["c2"].res = TRUE

----------------------------------------------------------------------------
(* The two matchers side by side (Spec) *)

\* What is_match returns when it takes the segment-based route
\* (lib.rs:29-30), whatever has_multiple_globstars says.
BySegments(inp, pat) == match_with_segments(inp, parse_glob_segments(pat))

\* What is_match returns when it takes the direct route (lib.rs:33).
ByDirect(inp, pat) == match_pattern(inp, pat, 0, 0)

\* C21: the two matchers are interchangeable: parsing the pattern and running
\* match_with_segments returns the same boolean as match_pattern started at
\* (0, 0), for every path and every pattern.
C21_Interchangeable ==
    Done => BySegments(input, pattern) = ByDirect(input, pattern)

----------------------------------------------------------------------------
(* The Wildcard arm of the segment-based matcher (SpecSteps) *)

RECURSIVE NonSlashRun(_, _)
\* Number of characters from the 0-based index i up to the first '/' or the
\* end of s.
NonSlashRun(s, i) ==
    IF i >= Len(s) \/ At(s, i) = "/" THEN 0 ELSE 1 + NonSlashRun(s, i + 1)

\* The frame n of the stack is a call whose segment is a Wildcard.
AtWildcard(call, n) ==
    /\ call.stack[n].s < Len(call.segs)
    /\ At(call.segs, call.stack[n].s).kind = "Wildcard"

\* C22: a Wildcard segment consumes at least one character and only
\* characters other than '/': the call it makes continues at i + n for a
\* length n from 1 to the number of characters before the first '/' or the
\* end of the input, the lengths are tried shortest first (every shorter one
\* has failed), and the value of the segment at i is true iff the rest of the
\* segments matches at i + n for one of these lengths, so it is false on
\* exhausted input and never rests on a zero-length match.
C22_WildcardOneOrMore ==
    \A c \in Calls :
        LET call == calls[c]
            run(i) == NonSlashRun(call.inp, i)
            rest(i, s) == match_segments_plain(call.inp, i, call.segs, s + 1)
        IN  call.st = "run" =>
              /\ \A n \in 1..Len(call.stack) :
                    LET f == call.stack[n]
                    IN  AtWildcard(call, n) =>
                          /\ f.at \in {"loop", "wait"} =>
                                /\ f.j \in f.i..(f.i + run(f.i))
                                /\ \A k \in (f.i + 1)..f.j : ~rest(k, f.s)
                          /\ f.at = "wait" =>
                                /\ n < Len(call.stack)
                                /\ call.stack[n + 1].s = f.s + 1
                                /\ call.stack[n + 1].i = f.j + 1
                                /\ call.stack[n + 1].i \in (f.i + 1)..(f.i + run(f.i))
                          /\ f.at = "insert" =>
                                f.r = (\E k \in 1..run(f.i) : rest(f.i + k, f.s))
              /\ \A n \in 1..Len(call.log) :
                    LET key == call.log[n][1]
                    IN  key[2] < Len(call.segs) /\ At(call.segs, key[2]).kind = "Wildcard"
                            => call.log[n][2] = (\E k \in 1..run(key[1]) : rest(key[1] + k, key[2]))

\* C22 witness: the Wildcard of "**/**/*" on the path "aa" has failed with
\* one character and succeeded with two.
C22_Witness ==
    /\ calls["c1"].st = "run"
    /\ calls["c1"].pat = MultiHead \o <<"*">>
    /\ calls["c1"].inp = <<"a", "a">>
    /\ calls["c1"].stack # <<>>
    /\ LET n == Len(calls["c1"].stack)
           f == Top(calls["c1"].stack)
       IN  /\ AtWildcard(calls["c1"], n)
           /\ f.at = "insert" /\ f.r = TRUE /\ f.i = 0 /\ f.j = 1
           /\ ~match_segments_plain(<<"a", "a">>, 1, calls["c1"].segs, f.s + 1)

\* C22 witness: a Wildcard reached on exhausted input has failed.
C22_WitnessExhausted ==
    /\ calls["c1"].st = "run"
    /\ calls["c1"].pat = MultiHead \o <<"*">>
    /\ calls["c1"].inp = <<"a", "/">>
    /\ calls["c1"].stack # <<>>
    /\ AtWildcard(calls["c1"], Len(calls["c1"].stack))
    /\ Top(calls["c1"].stack).at = "insert"
    /\ Top(calls["c1"].stack).i = 2
    /\ Top(calls["c1"].stack).r = FALSE

----------------------------------------------------------------------------
(* The segment parser on its own (SpecParse) *)

MaxParseLen == 6

ParseChars == {"a", "*", "/", "[", "]"}

\* let segments = parse_glob_segments(&pattern_chars): the parser runs on
\* the pattern and leaves the segment list.
Parse ==
    /\ pc = "parse"
    /\ calls' = [calls EXCEPT !["c1"] =
                    [@ EXCEPT !.pat = pattern,
                              !.segs = parse_glob_segments(pattern)]]
    /\ pc' = "parsed"
    /\ UNCHANGED <<input, pattern, result, memos>>

NextParse == Parse

InitParse ==
    /\ input = <<>>
    /\ pattern \in Strs(ParseChars, MaxParseLen)
    /\ pc = "parse"
    /\ result = FALSE
    /\ calls = NoCalls
    /\ memos = NoMemos

SpecParse == InitParse /\ [][NextParse]_vars

Parsed == pc = "parsed"

\* The text a segment stands for.
SegmentText(seg) ==
    CASE seg.kind = "Literal" -> seg.text
      [] seg.kind = "Wildcard" -> <<"*">>
      [] seg.kind = "Globstar" -> <<"*", "*">>
      [] seg.kind = "CharClass" -> seg.text

RECURSIVE Unparse(_)
\* The texts of the segments, concatenated in order.
Unparse(segments) ==
    IF segments = <<>> THEN <<>>
    ELSE SegmentText(Head(segments)) \o Unparse(Tail(segments))

RECURSIVE WithoutGlobstarSlash(_, _)
\* The pattern from the 0-based index i on, read left to right, with the '/'
\* that immediately follows each "**" removed.
WithoutGlobstarSlash(p, i) ==
    IF i >= Len(p) THEN <<>>
    ELSE IF At(p, i) = "*" /\ i + 1 < Len(p) /\ At(p, i + 1) = "*"
    THEN <<"*", "*">> \o
         WithoutGlobstarSlash(p, IF i + 2 < Len(p) /\ At(p, i + 2) = "/"
                                 THEN i + 3 ELSE i + 2)
    ELSE <<At(p, i)>> \o WithoutGlobstarSlash(p, i + 1)

\* The index after the bracket expression that starts at the '[' at i: after
\* the first ']' that follows the '[', or the end of the pattern.
BracketEnd(p, i) ==
    IF \E j \in (i + 1)..(Len(p) - 1) : At(p, j) = "]"
    THEN 1 + CHOOSE j \in (i + 1)..(Len(p) - 1) :
                 /\ At(p, j) = "]"
                 /\ \A k \in (i + 1)..(j - 1) : At(p, k) # "]"
    ELSE Len(p)

RECURSIVE WithoutGlobstarSlashOutsideBrackets(_, _)
\* The same, where a bracket expression is copied as it is.
WithoutGlobstarSlashOutsideBrackets(p, i) ==
    IF i >= Len(p) THEN <<>>
    ELSE IF At(p, i) = "["
    THEN Slice(p, i, BracketEnd(p, i)) \o
         WithoutGlobstarSlashOutsideBrackets(p, BracketEnd(p, i))
    ELSE IF At(p, i) = "*" /\ i + 1 < Len(p) /\ At(p, i + 1) = "*"
    THEN <<"*", "*">> \o
         WithoutGlobstarSlashOutsideBrackets(p,
             IF i + 2 < Len(p) /\ At(p, i + 2) = "/" THEN i + 3 ELSE i + 2)
    ELSE <<At(p, i)>> \o WithoutGlobstarSlashOutsideBrackets(p, i + 1)

NoEmptyLiteral(segments) ==
    \A k \in 1..Len(segments) : segments[k] # Literal(<<>>)

\* C23 as stated: the texts of the segments, concatenated, are the pattern
\* without the '/' that immediately follows each "**", and no Literal
\* segment is empty.
C23_RoundTripOriginal ==
    Parsed => /\ Unparse(calls["c1"].segs) = WithoutGlobstarSlash(pattern, 0)
              /\ NoEmptyLiteral(calls["c1"].segs)

\* C23, amended: the texts of the segments, concatenated, are the pattern
\* without the '/' that immediately follows each "**" outside a bracket
\* expression (from a '[' to the first ']' after it, or to the end of the
\* pattern); a bracket expression is kept whole, also when it holds "**/";
\* and no Literal segment is empty.
C23_RoundTrip ==
    Parsed => /\ Unparse(calls["c1"].segs)
                    = WithoutGlobstarSlashOutsideBrackets(pattern, 0)
              /\ NoEmptyLiteral(calls["c1"].segs)

\* C23 witness: "a**/a*" is parsed into Literal, Globstar, Literal, Wildcard
\* and the '/' is gone.
C23_Witness ==
    /\ Parsed
    /\ pattern = <<"a", "*", "*", "/", "a", "*">>
    /\ calls["c1"].segs = <<Literal(<<"a">>), Globstar, Literal(<<"a">>), Wildcard>>
    /\ Unparse(calls["c1"].segs) = <<"a", "*", "*", "a", "*">>

\* C23 second case: the bracket expression "[**/]" keeps its '/'.
C23_WitnessBracket ==
    /\ Parsed
    /\ pattern = <<"[", "*", "*", "/", "]">>
    /\ calls["c1"].segs = <<CharClass(pattern)>>

----------------------------------------------------------------------------
(* Exhausted input in the direct matcher (Spec) *)

\* C24: in the direct matcher, on exhausted input the result is true iff
\* every remaining pattern character is '*': at every pattern index, and so
\* for a pattern that is the path (of ordinary characters) followed by a
\* rest, which accepts the path
\* iff the rest is made of '*' only ("a*" accepts "a"); the empty pattern
\* accepts only the empty path, and a non-empty pattern of ordinary
\* characters rejects the empty path.  is_match returns that result whenever
\* it hands the call to the direct matcher.
C24_InputExhausted ==
    Done =>
        /\ \A k \in 0..Len(pattern) :
              match_pattern(input, pattern, Len(input), k)
                  = AllStars(SliceFrom(pattern, k))
        /\ Ordinary(input) /\ IsPrefix(input, pattern)
              => ByDirect(input, pattern) = AllStars(DropPrefix(input, pattern))
        /\ pattern = <<>> => ByDirect(input, pattern) = (input = <<>>)
        /\ pattern # <<>> /\ Ordinary(pattern) /\ input = <<>>
              => ~ByDirect(input, pattern)
        /\ Direct(input, pattern) /\ Ordinary(input) /\ IsPrefix(input, pattern)
              => result = AllStars(DropPrefix(input, pattern))

\* C24 witness: the pattern "a/a*" has accepted the path "a/a", equal to its
\* prefix.
C24_Witness ==
    /\ Done
    /\ input = <<"a", "/", "a">>
    /\ pattern = <<"a", "/", "a", "*">>
    /\ Direct(input, pattern)
    /\ result = TRUE

\* C24 second case: the pattern "a*a" has rejected the path "a": the rest
\* "*a" is not made of '*' only.
C24_WitnessRejected ==
    /\ Done
    /\ input = <<"a">>
    /\ pattern = <<"a", "*", "a">>
    /\ result = FALSE

\* C24 third case: the empty pattern has accepted the empty path.
C24_WitnessEmpty ==
    /\ Done
    /\ input = <<>>
    /\ pattern = <<>>
    /\ result = TRUE

----------------------------------------------------------------------------
(* The examples of the comments in match_globstar (SpecExamples) *)

\* The prefixes of the examples at lib.rs:130-132.
ExamplePrefixes ==
    { <<"t", "e", "s", "t">>,
      <<"s", "r", "c">> }

\* Nothing, or one directory between the prefix and the file.
ExampleDirs ==
    { <<>>,
      <<"l", "i", "b", "/">> }

\* File names with one '.' and with an additional '.'.
ExampleFiles ==
    { <<"m", "a", "i", "n", ".", "j", "s">>,
      <<"m", "a", "i", "n", ".", "t", "e", "s", "t", ".", "j", "s">> }

ExamplePaths ==
    {p \o <<"/">> \o d \o f :
        p \in ExamplePrefixes, d \in ExampleDirs, f \in ExampleFiles}

\* What follows the prefix in the patterns of the examples.
ExampleTails ==
    { <<"/", "*", "*", "/", "*", ".", "j", "s">>,
      <<"/", "*", "*", "/", "m", "a", "i", "n", ".", "j", "s">>,
      <<"/", "*", "*", "/", "m", "a", "i", "n", ".", "t", "e", "s", "t", ".", "j", "s">>,
      <<"/", "*", "*">>,
      <<"/", "*", ".", "j", "s">> }

ExamplePatterns ==
    {p \o t : p \in ExamplePrefixes, t \in ExampleTails}

InitExamples ==
    /\ input \in ExamplePaths
    /\ pattern \in ExamplePatterns
    /\ pc = "call"
    /\ result = FALSE
    /\ calls = NoCalls
    /\ memos = NoMemos

SpecExamples == InitExamples /\ [][Next]_vars

\* C25: as the comment in match_globstar says, "test/**/*.js" matches
\* "test/main.test.js", a file directly under the prefix whose name holds an
\* additional '.'.
C25_DotInNameAccepted ==
    /\ Done
    /\ pattern = <<"t", "e", "s", "t", "/", "*", "*", "/", "*", ".", "j", "s">>
    /\ input = <<"t", "e", "s", "t", "/", "m", "a", "i", "n", ".", "t", "e", "s", "t", ".", "j", "s">>
    => result = TRUE

----------------------------------------------------------------------------
(* Character classes and the separator (SpecClass) *)

\* C26: character classes are not separator-aware: a terminated class
\* accepts the input character '/' whenever '/' passes the membership test
\* (listed XOR negated), in the direct matcher and, after the head "**/**/",
\* in the segment-based matcher; so every negated class that does not list
\* '/' (as a character or inside a range), "[^]" included, accepts '/'.  '?' and a single '*' in the place of
\* the class reject it.
C26_ClassMatchesSeparator ==
    \A h \in ClassHeads :
        /\ Done
        /\ IsPrefix(h \o <<"[">>, pattern)
        /\ Contains(pattern, "]")
        /\ input = <<"/">> \o AfterClass(DropPrefix(h, pattern))
        => LET content == ContentOf(DropPrefix(h, pattern))
               post == AfterClass(DropPrefix(h, pattern))
           IN  /\ result = ClassAccepts(content, "/")
               /\ Negated(content) /\ ~Listed("/", ClassBody(content))
                     => result = TRUE
               /\ content = <<"^">> => result = TRUE
               /\ ~is_match(input, h \o <<"?">> \o post)
               /\ ~is_match(input, h \o <<"*">> \o post)

\* C26 witness: the direct matcher has accepted "/m" for "[^a]m": the class
\* took the '/'.
C26_Witness ==
    /\ Done
    /\ pattern = <<"[", "^", "a", "]", "m">>
    /\ input = <<"/", "m">>
    /\ ~has_multiple_globstars(pattern)
    /\ ClassAccepts(<<"^", "a">>, "/")
    /\ result = TRUE

\* C26 second case: the segment-based matcher has accepted "/" for
\* "**/**/[^]".
C26_WitnessSegments ==
    /\ Done
    /\ pattern = MultiHead \o <<"[", "^", "]">>
    /\ input = <<"/">>
    /\ has_multiple_globstars(pattern)
    /\ result = TRUE

\* C26 third case: a class that is not negated and does not list '/' has
\* rejected it.
C26_WitnessRejected ==
    /\ Done
    /\ pattern = <<"[", "a", "-", "z", "]">>
    /\ input = <<"/">>
    /\ result = FALSE

====
